---- MODULE Spec2Model ----
(***************************************************************************)
(* Model of scraper/ffs.py: the date-window planner (dt_to_url and its     *)
(* helpers), the resume cursor (get_start_dt) and the orchestrator loop    *)
(* (scrap).                                                                *)
(*                                                                         *)
(* A Python aware datetime is a record                                     *)
(*   [ord, h, mi, s, us, off]                                              *)
(* ord is the proleptic Gregorian ordinal of the wall-clock date (as       *)
(* date.toordinal()), h/mi/s the wall-clock time, us is 1 when the         *)
(* microsecond field is non-zero, and off the UTC offset of its tzinfo in  *)
(* hours.  Time zones are fixed offsets (no DST transitions).  ord = 0     *)
(* stands for Python's None.                                               *)
(***************************************************************************)
EXTENDS Integers, Sequences, FiniteSets, TLC

VARIABLES
    now,          \* the wall clock: the instant datetime.now() would return
    local_off,    \* UTC offset of the machine's local zone (naive datetime.now())
    p_pc,         \* planner harness: "input" | "called"
    p_date,       \* planner harness: the cursor handed to dt_to_url
    p_allow,      \* planner harness: allow_future
    p_url,        \* planner harness: what dt_to_url returned
    h_pc,         \* function harness: "off" | the function to call | "... done"
    h_in,         \* function harness: the input drawn
    h_out,        \* function harness: what the function returned
    site,         \* the events the calendar site holds
    site_week,    \* the Sunday of the week the calendar widget shows
    sink,         \* the JSONL file: the records appended, in order
    errors,       \* errors.csv: the lines appended, in order
    pc,           \* "idle" | "loop" (top of scrap's while) | "done" | "killed"
    result,       \* how scrap ended
    run,          \* 1 for the first run, 2 for the run that resumes it
    args,         \* scrap's arguments
    start_date,   \* scrap's cursor
    end_date,
    original_start_date,
    week_count,
    first_date_on_page,   \* of the page processed last
    last_date_on_page,
    hist          \* history of the run, for stating the claims

vars == <<now, local_off, p_pc, p_date, p_allow, p_url, h_pc, h_in, h_out, site,
          site_week, sink,
          errors, pc, result, run, args, start_date, end_date,
          original_start_date, week_count, first_date_on_page,
          last_date_on_page, hist>>

planner_vars == <<p_pc, p_date, p_allow, p_url>>

harness_vars == <<h_pc, h_in, h_out>>

scrap_vars == <<site, site_week, sink, errors, pc, result, run, args, start_date,
                end_date, original_start_date, week_count, first_date_on_page,
                last_date_on_page, hist>>

(***************************************************************************)
(* Calendar arithmetic, as datetime.date does it.                          *)
(***************************************************************************)
IsLeap(y) == (y % 4 = 0) /\ ((y % 100 # 0) \/ (y % 400 = 0))

DaysInMonth(y, m) ==
    IF m = 2 THEN (IF IsLeap(y) THEN 29 ELSE 28)
    ELSE IF m \in {4, 6, 9, 11} THEN 30 ELSE 31

DaysBeforeYear(y) ==
    (y - 1) * 365 + ((y - 1) \div 4) - ((y - 1) \div 100) + ((y - 1) \div 400)

RECURSIVE DaysBeforeMonth(_, _)
DaysBeforeMonth(y, m) ==
    IF m = 1 THEN 0 ELSE DaysBeforeMonth(y, m - 1) + DaysInMonth(y, m - 1)

Ordinal(y, m, d) == DaysBeforeYear(y) + DaysBeforeMonth(y, m) + d

\* date.fromordinal(n) as <<year, month, day>>
FromOrdinal(n) ==
    LET y == CHOOSE c \in 2000..2040 :
                 DaysBeforeYear(c) < n /\ n <= DaysBeforeYear(c + 1)
        k == n - DaysBeforeYear(y)
        m == CHOOSE c \in 1..12 :
                 DaysBeforeMonth(y, c) < k
                     /\ k <= DaysBeforeMonth(y, c) + DaysInMonth(y, c)
    IN  <<y, m, k - DaysBeforeMonth(y, m)>>

\* the dates from December 2006 to the end of 2025, tabulated
Civil == [n \in Ordinal(2006, 12, 1)..Ordinal(2025, 12, 31) |-> FromOrdinal(n)]

YearOf(n) == Civil[n][1]

MonthOf(n) == Civil[n][2]

DayOf(n) == Civil[n][3]

\* date.isoweekday(): Monday = 1 .. Sunday = 7 (ordinal 1 is a Monday)
IsoWeekday(n) == ((n + 6) % 7) + 1

(***************************************************************************)
(* Datetimes.                                                              *)
(***************************************************************************)
DT(o, h, mi, s, us, off) ==
    [ord |-> o, h |-> h, mi |-> mi, s |-> s, us |-> us, off |-> off]

None == DT(0, 0, 0, 0, 0, 0)

\* gettz('UTC') and the zone get_timezone falls back to (America/New_York)
TZ_UTC == 0
TZ_NEW_YORK == 0 - 5

EpochOrd == Ordinal(2006, 12, 31)

\* The instant of an aware datetime, in half-seconds since the epoch day:
\* aware datetimes compare and subtract by instant.
Inst(dt) ==
    ((((dt.ord - EpochOrd) * 24 + dt.h - dt.off) * 60 + dt.mi) * 60 + dt.s) * 2 + dt.us

\* dt.astimezone(tz)
AsTimezone(dt, off) ==
    LET secs == (((dt.ord - EpochOrd) * 24 + dt.h - dt.off + off) * 60 + dt.mi) * 60 + dt.s
        d    == secs \div 86400
        r    == secs % 86400
    IN  DT(EpochOrd + d, r \div 3600, (r % 3600) \div 60, r % 60, dt.us, off)

\* dt + timedelta(days=n): wall-clock arithmetic
PlusDays(dt, n) == [dt EXCEPT !.ord = dt.ord + n]

(***************************************************************************)
(* The date-window planner.                                                *)
(***************************************************************************)
\* get_next_dt(date, mode): replace() keeps second and microsecond
get_next_dt(date, mode) ==
    IF mode = "month"
      THEN LET y == YearOf(date.ord)
               q == MonthOf(date.ord) \div 12
               r == MonthOf(date.ord) % 12
           IN  [date EXCEPT !.ord = Ordinal(y + q, r + 1, 1), !.h = 0, !.mi = 0]
      ELSE IF mode = "week"
        THEN PlusDays([date EXCEPT !.h = 0, !.mi = 0], 7)
        ELSE PlusDays([date EXCEPT !.h = 0, !.mi = 0], 1)

\* datetime.now(tz=date.tzinfo) is the same instant as now
dt_is_complete(date, mode) == Inst(get_next_dt(date, mode)) <= Inst(now)

dt_is_start_of_week(date) == IsoWeekday(date.ord) % 7 = 0

dt_is_start_of_month(date) == DayOf(date.ord) = 1

\* A mutation of dt_is_today: every date counts as today
dt_is_today_always(date) == date.ord > 0

\* today = datetime.now(): naive, in the machine's local zone; the cursor's
\* own wall-clock date is compared with it
dt_is_today(date) == AsTimezone(now, local_off).ord = date.ord

\* dt_to_str(date, mode): '%b.%Y' or '%b%d.%Y' of the cursor's own fields
dt_to_str(date, mode) ==
    [y  |-> YearOf(date.ord),
     mo |-> MonthOf(date.ord),
     d  |-> IF mode = "month" THEN 0 ELSE DayOf(date.ord)]

Url(mode, date) == [mode |-> mode, str |-> dt_to_str(date, mode)]

\* dt_to_url raising ValueError('... is not completed yet.')
NotCompleted == [mode |-> "ValueError", str |-> [y |-> 0, mo |-> 0, d |-> 0]]

dt_to_url(date, allow_future) ==
    IF dt_is_start_of_month(date) /\ dt_is_complete(date, "month")
      THEN Url("month", date)
    ELSE IF dt_is_start_of_week(date) /\ dt_is_complete(date, "week")
      THEN IF \E x \in 0..6 :
                  /\ dt_is_start_of_month(PlusDays(date, x))
                  /\ dt_is_complete(date, "month")
             THEN Url("day", date)
             ELSE Url("week", date)
    ELSE IF dt_is_complete(date, "day") \/ dt_is_today(date)
      THEN Url("day", date)
    ELSE IF allow_future /\ Inst(date) > Inst(now)
      THEN Url("day", date)
    ELSE NotCompleted

\* get_mode(url): the text between '?' and '='
get_mode(url) == url.mode

(***************************************************************************)
(* Event identity and the sink record.                                     *)
(* An event name is a sequence of one-character strings.                   *)
(***************************************************************************)
AlphaNum ==
    {"A", "B", "C", "D", "E", "F", "G", "H", "I", "P", "R", "S",
     "a", "e", "i", "l", "m", "o", "r", "s", "t", "y",
     "0", "1", "2", "3"}

\* re.sub(r'[^a-zA-Z0-9]', '_', name)
RECURSIVE ReplaceNonAlnum(_)
ReplaceNonAlnum(name) ==
    IF name = <<>> THEN <<>>
    ELSE <<IF Head(name) \in AlphaNum THEN Head(name) ELSE "_">>
            \o ReplaceNonAlnum(Tail(name))

\* re.sub(r'_+', '_', normalized)
RECURSIVE CollapseUnderscores(_)
CollapseUnderscores(name) ==
    IF Len(name) < 2 THEN name
    ELSE IF name[1] = "_" /\ name[2] = "_"
      THEN CollapseUnderscores(Tail(name))
      ELSE <<Head(name)>> \o CollapseUnderscores(Tail(name))

\* normalized.strip('_') of a name whose underscores are already collapsed
StripUnderscores(name) ==
    LET a == IF name # <<>> /\ Head(name) = "_" THEN Tail(name) ELSE name
    IN  IF a # <<>> /\ a[Len(a)] = "_" THEN SubSeq(a, 1, Len(a) - 1) ELSE a

\* A mutation of normalize_event_name: without normalized.strip('_')
normalize_event_name_unstripped(name) ==
    LET n == CollapseUnderscores(ReplaceNonAlnum(name))
    IN  SubSeq(n, 1, IF Len(n) < 20 THEN Len(n) ELSE 20)

\* normalize_event_name(name)
normalize_event_name(name) ==
    LET n == StripUnderscores(CollapseUnderscores(ReplaceNonAlnum(name)))
    IN  SubSeq(n, 1, IF Len(n) < 20 THEN Len(n) ELSE 20)

\* the element of a one-element set: binds the value of an expression once
The(S) == CHOOSE x \in S : TRUE

\* ''.join(chars): the string of a sequence of characters
RECURSIVE Join(_)
Join(chars) == IF chars = <<>> THEN "" ELSE Head(chars) \o Join(Tail(chars))

Digits == <<"0", "1", "2", "3", "4", "5", "6", "7", "8", "9">>

\* the two digits strftime writes for a month, day, hour or minute (%m, %d,
\* %H, %M) and for each half of a year (%Y)
Pad2(n) == Digits[(n \div 10) + 1] \o Digits[(n % 10) + 1]

\* A mutation of generate_event_id: time_str is the hour alone ('%H')
generate_event_id_hour(event_name, currency, dt) ==
    The({ Join(normalize_event_name(event_name)) \o "_" \o currency \o "_"
            \o Pad2(y \div 100) \o Pad2(y % 100) \o "-" \o Pad2(MonthOf(u.ord))
            \o "-" \o Pad2(DayOf(u.ord)) \o "_" \o Pad2(u.h) :
          u \in {AsTimezone(dt, TZ_UTC)}, y \in {YearOf(AsTimezone(dt, TZ_UTC).ord)} })

\* A mutation of generate_event_id: the date and time of the id are taken
\* from dt as it is given, without dt.astimezone(TZ_UTC)
generate_event_id_local(event_name, currency, dt) ==
    The({ Join(normalize_event_name(event_name)) \o "_" \o currency \o "_"
            \o Pad2(y \div 100) \o Pad2(y % 100) \o "-" \o Pad2(MonthOf(dt.ord))
            \o "-" \o Pad2(DayOf(dt.ord)) \o "_" \o Pad2(dt.h) \o ":" \o Pad2(dt.mi) :
          y \in {YearOf(dt.ord)} })

\* generate_event_id: f"{normalized_name}_{currency}_{date_str}_{time_str}"
\* with '%Y-%m-%d' and '%H:%M' of the UTC date and time
generate_event_id(event_name, currency, dt) ==
    The({ Join(normalize_event_name(event_name)) \o "_" \o currency \o "_"
            \o Pad2(y \div 100) \o Pad2(y % 100) \o "-" \o Pad2(MonthOf(u.ord))
            \o "-" \o Pad2(DayOf(u.ord)) \o "_" \o Pad2(u.h) \o ":" \o Pad2(u.mi) :
          u \in {AsTimezone(dt, TZ_UTC)}, y \in {YearOf(AsTimezone(dt, TZ_UTC).ord)} })

\* datetime_to_utc_ms(dt), in whole seconds counted from the epoch day
\* (event datetimes carry no fraction of a second)
datetime_to_utc_ms(dt) == Inst(dt) \div 2

(***************************************************************************)
(* Values of a release.  A value text ('0.3%', '215K') is a sequence of    *)
(* one-character strings over digits, '-', '+', '.', ',', '%', blanks, the *)
(* suffix letters in either case, "nbsp" for the no-break space and "x"    *)
(* for any other character.  A                                             *)
(* float is the exact decimal v * 10^e with v not a multiple of ten (0 is  *)
(* v = 0, e = 0); a value that may be None is a record with a null field.  *)
(***************************************************************************)
NoneNum == [null |-> TRUE, v |-> 0, e |-> 0]

RECURSIVE Num(_, _)
\* the float v * 10^e
Num(v, e) ==
    IF v = 0 THEN [null |-> FALSE, v |-> 0, e |-> 0]
    ELSE IF v % 10 = 0 THEN Num(v \div 10, e + 1)
    ELSE [null |-> FALSE, v |-> v, e |-> e]

RECURSIVE Pow10(_)
Pow10(k) == IF k <= 0 THEN 1 ELSE 10 * Pow10(k - 1)

\* x in units of 10^e, for e at most x.e (any e for 0)
Scaled(x, e) == IF x.v = 0 THEN 0 ELSE x.v * Pow10(x.e - e)

\* the exponent two floats are compared and subtracted at
CommonExp(x, y) ==
    IF x.v = 0 THEN y.e ELSE IF y.v = 0 THEN x.e
    ELSE IF x.e < y.e THEN x.e ELSE y.e

Plus(x, y) == Num(Scaled(x, CommonExp(x, y)) + Scaled(y, CommonExp(x, y)), CommonExp(x, y))

Minus(x, y) == Num(Scaled(x, CommonExp(x, y)) - Scaled(y, CommonExp(x, y)), CommonExp(x, y))

Less(x, y) == Scaled(x, CommonExp(x, y)) < Scaled(y, CommonExp(x, y))

Abs(x) == IF x < 0 THEN 0 - x ELSE x

\* text if text else None
OrNone(text) ==
    IF text = <<>> THEN [null |-> TRUE, v |-> <<>>]
    ELSE [null |-> FALSE, v |-> text]

IsDigit(c) == \E d \in 1..10 : Digits[d] = c

DigitValue(c) == (CHOOSE d \in 1..10 : Digits[d] = c) - 1

\* str.strip() of a value text: blanks and no-break spaces are whitespace
StripText(text) ==
    LET keep == { i \in 1..Len(text) : text[i] \notin {" ", "nbsp"} }
    IN  IF keep = {} THEN <<>>
        ELSE SubSeq(text,
                    CHOOSE i \in keep : \A j \in keep : i <= j,
                    CHOOSE i \in keep : \A j \in keep : i >= j)

\* str.replace(c, '')
RECURSIVE Without(_, _)
Without(text, c) ==
    IF text = <<>> THEN <<>>
    ELSE (IF Head(text) = c THEN <<>> ELSE <<Head(text)>>) \o Without(Tail(text), c)

Contains(text, c) == \E i \in 1..Len(text) : text[i] = c

\* str.upper()
UpperChar(c) ==
    IF c = "k" THEN "K" ELSE IF c = "m" THEN "M"
    ELSE IF c = "b" THEN "B" ELSE IF c = "t" THEN "T" ELSE c

Upper(text) == [i \in 1..Len(text) |-> UpperChar(text[i])]

\* the number a run of digits spells
RECURSIVE DigitsValue(_)
DigitsValue(ds) ==
    IF ds = <<>> THEN 0
    ELSE DigitsValue(SubSeq(ds, 1, Len(ds) - 1)) * 10 + DigitValue(ds[Len(ds)])

\* float(value), None for the ValueError: blanks around, an optional sign,
\* digits with at most one point and at least one digit
Float(value) ==
    LET t      == StripText(value)
        signed == t # <<>> /\ t[1] \in {"-", "+"}
        body   == IF signed THEN Tail(t) ELSE t
        points == { i \in 1..Len(body) : body[i] = "." }
        dot    == IF points = {} THEN Len(body) + 1 ELSE CHOOSE i \in points : TRUE
        whole  == SubSeq(body, 1, dot - 1)
        frac   == SubSeq(body, dot + 1, Len(body))
        mag    == DigitsValue(whole \o frac)
    IN  IF /\ Cardinality(points) <= 1
           /\ \A i \in 1..Len(body) : i # dot => IsDigit(body[i])
           /\ Len(whole) + Len(frac) >= 1
          THEN Num(IF signed /\ t[1] = "-" THEN 0 - mag ELSE mag, 0 - Len(frac))
          ELSE NoneNum

\* multipliers = {'K': 1_000, 'M': 1_000_000, 'B': ..., 'T': ...}, in order,
\* as powers of ten
Multipliers == << <<"K", 3>>, <<"M", 6>>, <<"B", 9>>, <<"T", 12>> >>

\* the first suffix of the table that occurs in value.upper(), 0 for none
FirstSuffix(value) ==
    LET found == { i \in 1..Len(Multipliers) : Contains(Upper(value), Multipliers[i][1]) }
    IN  IF found = {} THEN 0 ELSE CHOOSE i \in found : \A j \in found : i <= j

\* parse_numeric_value(value)
parse_numeric_value(value) ==
    IF value = <<>> \/ StripText(value) = <<>> THEN NoneNum
    ELSE LET v1 == Without(Without(Without(StripText(value), ","), "nbsp"), "%")
             k  == FirstSuffix(v1)
             v2 == IF k = 0 THEN v1 ELSE Without(Upper(v1), Multipliers[k][1])
         IN  The({ IF f.null THEN NoneNum
                   ELSE Num(f.v, f.e + (IF k = 0 THEN 0 ELSE Multipliers[k][2])) :
                   f \in {Float(v2)} })

\* A mutation of calculate_outcome: epsilon is forecast * 0.0001 without abs()
calculate_outcome_signed(actual, forecast) ==
    The({ LET epsilon == IF forecast_num.v # 0
                           THEN Num(forecast_num.v, forecast_num.e - 4)
                           ELSE Num(1, 0 - 4)
          IN  IF actual_num.null \/ forecast_num.null THEN ""
              ELSE IF Less(Plus(forecast_num, epsilon), actual_num) THEN "beat"
              ELSE IF Less(actual_num, Minus(forecast_num, epsilon)) THEN "miss"
              ELSE "met" :
          actual_num \in {parse_numeric_value(actual)},
          forecast_num \in {parse_numeric_value(forecast)} })

\* calculate_outcome(actual, forecast): '' is ""
calculate_outcome(actual, forecast) ==
    The({ LET epsilon == IF forecast_num.v # 0
                           THEN Num(Abs(forecast_num.v), forecast_num.e - 4)
                           ELSE Num(1, 0 - 4)
          IN  IF actual_num.null \/ forecast_num.null THEN ""
              ELSE IF Less(Plus(forecast_num, epsilon), actual_num) THEN "beat"
              ELSE IF Less(actual_num, Minus(forecast_num, epsilon)) THEN "miss"
              ELSE "met" :
          actual_num \in {parse_numeric_value(actual)},
          forecast_num \in {parse_numeric_value(forecast)} })

\* a / b rounded to the nearest integer, halves to the even one (b > 0)
RoundDiv(a, b) ==
    LET q == Abs(a) \div b
        r == Abs(a) % b
        n == IF 2 * r > b \/ (2 * r = b /\ q % 2 = 1) THEN q + 1 ELSE q
    IN  IF a >= 0 THEN n ELSE 0 - n

RECURSIVE DigitCount(_)
DigitCount(n) == IF n < 10 THEN 1 ELSE 1 + DigitCount(n \div 10)

\* float(f'{x:.4g}'): x to four significant digits
FourSignificant(x) ==
    LET drop == DigitCount(Abs(x.v)) - 4
    IN  IF drop <= 0 THEN x
        ELSE Num(RoundDiv(x.v, Pow10(drop)), x.e + drop)

\* float(f'{x / abs(y) * 100:.2f}'): the percentage to two decimals
Percentage(x, y) ==
    LET k == x.e - y.e + 4
    IN  IF k >= 0 THEN Num(RoundDiv(x.v * Pow10(k), Abs(y.v)), 0 - 2)
        ELSE Num(RoundDiv(x.v, Abs(y.v) * Pow10(0 - k)), 0 - 2)

\* calculate_deviation(actual, forecast) with the float() of lines 406-418
calculate_deviation(actual, forecast) ==
    The({ LET deviation == Minus(actual_num, forecast_num)
          IN  IF actual_num.null \/ forecast_num.null THEN <<NoneNum, NoneNum>>
              ELSE IF forecast_num.v # 0
                THEN << FourSignificant(deviation), Percentage(deviation, forecast_num) >>
              ELSE << FourSignificant(deviation), NoneNum >> :
          actual_num \in {parse_numeric_value(actual)},
          forecast_num \in {parse_numeric_value(forecast)} })

\* A mutation of determine_event_status: an event counts as released when
\* its actual value is a number
determine_event_status_numeric(actual) ==
    IF ~parse_numeric_value(actual).null THEN "released" ELSE "scheduled"

\* determine_event_status(actual)
determine_event_status(actual) ==
    IF actual # <<>> /\ StripText(actual) # <<>> THEN "released" ELSE "scheduled"

\* IMPACT_MAPPING.get(raw_impact, 'non_economic')
normalize_impact(raw_impact) ==
    IF raw_impact = "High Impact Expected" THEN "high"
    ELSE IF raw_impact = "Medium Impact Expected" THEN "medium"
    ELSE IF raw_impact = "Low Impact Expected" THEN "low"
    ELSE "non_economic"

\* A mutation of get_trading_session: the hour is read from dt as given,
\* without dt.astimezone(TZ_UTC)
get_trading_session_local(dt) ==
    LET utc_hour   == dt.h
        in_sydney  == utc_hour >= 21 \/ utc_hour < 6
        in_london  == 7 <= utc_hour /\ utc_hour < 16
        in_ny      == 12 <= utc_hour /\ utc_hour < 21
    IN  IF in_london /\ in_ny THEN "london_ny_overlap"
        ELSE IF in_sydney /\ in_london THEN "asian_london_overlap"
        ELSE IF in_london THEN "london"
        ELSE IF in_ny THEN "new_york"
        ELSE IF in_sydney THEN "asian"
        ELSE "off_hours"

\* A mutation of get_trading_session: the end hour of a session belongs to it
get_trading_session_closed(dt) ==
    LET utc_hour   == AsTimezone(dt, TZ_UTC).h
        in_sydney  == utc_hour >= 21 \/ utc_hour <= 6
        in_london  == 7 <= utc_hour /\ utc_hour <= 16
        in_ny      == 12 <= utc_hour /\ utc_hour <= 21
    IN  IF in_london /\ in_ny THEN "london_ny_overlap"
        ELSE IF in_sydney /\ in_london THEN "asian_london_overlap"
        ELSE IF in_london THEN "london"
        ELSE IF in_ny THEN "new_york"
        ELSE IF in_sydney THEN "asian"
        ELSE "off_hours"

\* A mutation of get_trading_session: the Asian session runs to 08:00 UTC
get_trading_session_late_asian(dt) ==
    LET utc_hour   == AsTimezone(dt, TZ_UTC).h
        in_sydney  == utc_hour >= 21 \/ utc_hour < 8
        in_london  == 7 <= utc_hour /\ utc_hour < 16
        in_ny      == 12 <= utc_hour /\ utc_hour < 21
    IN  IF in_london /\ in_ny THEN "london_ny_overlap"
        ELSE IF in_sydney /\ in_london THEN "asian_london_overlap"
        ELSE IF in_london THEN "london"
        ELSE IF in_ny THEN "new_york"
        ELSE IF in_sydney THEN "asian"
        ELSE "off_hours"

\* get_trading_session(dt)
get_trading_session(dt) ==
    LET utc_hour   == AsTimezone(dt, TZ_UTC).h
        in_sydney  == utc_hour >= 21 \/ utc_hour < 6
        in_london  == 7 <= utc_hour /\ utc_hour < 16
        in_ny      == 12 <= utc_hour /\ utc_hour < 21
    IN  IF in_london /\ in_ny THEN "london_ny_overlap"
        ELSE IF in_sydney /\ in_london THEN "asian_london_overlap"
        ELSE IF in_london THEN "london"
        ELSE IF in_ny THEN "new_york"
        ELSE IF in_sydney THEN "asian"
        ELSE "off_hours"

\* dt.strftime('%a')
get_day_of_week(dt) ==
    <<"Mon", "Tue", "Wed", "Thu", "Fri", "Sat", "Sun">>[IsoWeekday(dt.ord)]

\* CURRENCY_TIMEZONES and tz_names: the display name of a currency's zone
SourceTzNames ==
    << <<"USD", "US/Eastern">>, <<"GBP", "UK/London">>, <<"EUR", "EU/Frankfurt">>,
       <<"JPY", "Asia/Tokyo">>, <<"AUD", "AU/Sydney">>, <<"NZD", "NZ/Auckland">>,
       <<"CAD", "CA/Toronto">>, <<"CHF", "CH/Zurich">>, <<"CNY", "CN/Shanghai">>,
       <<"HKD", "HK/HongKong">>, <<"SGD", "SG/Singapore">>,
       <<"SEK", "SE/Stockholm">>, <<"NOK", "NO/Oslo">>, <<"MXN", "MX/Mexico">>,
       <<"ZAR", "ZA/Joburg">>, <<"INR", "IN/Mumbai">> >>

\* get_source_timezone(currency)[1]
get_source_timezone(currency) ==
    LET at == { i \in 1..Len(SourceTzNames) : SourceTzNames[i][1] = currency }
    IN  IF at = {} THEN "UTC" ELSE SourceTzNames[CHOOSE i \in at : TRUE][2]

\* gettz('Europe/London'), at GMT in the weeks modelled
TZ_LONDON == 0

\* dt.strftime('%Y-%m-%d %H:%M:%S')
Strftime(dt) ==
    <<YearOf(dt.ord), MonthOf(dt.ord), DayOf(dt.ord), dt.h, dt.mi, dt.s>>

\* build_event_record(dt, currency, source_tz_name, raw_impact, event_name,
\* actual, forecast, previous, outcome)
build_event_record(dt, currency, source_tz_name, raw_impact, event_name, actual, forecast, previous, outcome) ==
    The({ [event_id          |-> generate_event_id(event_name, currency, dt),
           status            |-> determine_event_status(actual),
           timestamp_utc     |-> datetime_to_utc_ms(dt),
           scraped_at        |-> datetime_to_utc_ms(now),
           datetime_utc      |-> Strftime(AsTimezone(dt, TZ_UTC)),
           datetime_new_york |-> Strftime(AsTimezone(dt, TZ_NEW_YORK)),
           datetime_london   |-> Strftime(AsTimezone(dt, TZ_LONDON)),
           day_of_week       |-> get_day_of_week(dt),
           trading_session   |-> get_trading_session(dt),
           currency          |-> currency,
           source_tz         |-> source_tz_name,
           impact            |-> normalize_impact(raw_impact),
           event             |-> event_name,
           actual            |-> OrNone(actual),
           forecast          |-> OrNone(forecast),
           previous          |-> OrNone(previous),
           deviation         |-> dev[1],
           deviation_pct     |-> dev[2],
           outcome           |-> IF o = "" THEN "None" ELSE o] :
          dev \in {calculate_deviation(actual, forecast)}, o \in {outcome} })

\* A mutation of RowRecord: the outcome compares actual with previous
RowRecord_previous(date, row) ==
    build_event_record(date, row.cur, get_source_timezone(row.cur), row.imp,
                       row.ev, row.actual, row.forecast, row.previous,
                       calculate_outcome(row.actual, row.previous))

\* lines 939-952: the record of a row
RowRecord(date, row) ==
    build_event_record(date, row.cur, get_source_timezone(row.cur), row.imp,
                       row.ev, row.actual, row.forecast, row.previous,
                       calculate_outcome(row.actual, row.forecast))

\* datetime.fromtimestamp(timestamp_ms / 1000, tz=TZ_UTC)
FromTimestamp(ts) ==
    LET d == ts \div 86400
        r == ts % 86400
    IN  DT(EpochOrd + d, r \div 3600, (r % 3600) \div 60, r % 60, 0, TZ_UTC)

(***************************************************************************)
(* The calendar site (the fetch and row-extraction collaborators).  The    *)
(* site holds a set of events, each at a venue-local date and time; a page *)
(* lists the events of one day, week (Sunday to Saturday) or month, in     *)
(* order, with the date cell ('Tue Jan 2', no year) on the first row of a  *)
(* day and the time cell on the first row of each time.                    *)
(*   event: [n, ord, dtxt, tk, h, mi, name, cur, imp, actual, forecast,    *)
(*           previous]                                                     *)
(*   dtxt: "ok", "bad" for a date cell strptime cannot read, "none" for a  *)
(*         blank date cell on the first row of a day                       *)
(*   tk: "hm" a clock time, "day" 'All Day', "data" a 'Data ...' marker,   *)
(*       "bad" any other text ('Tentative')                                *)
(*   row:  [md, tm, cur, ev, imp, actual, forecast, previous, ord]         *)
(*         ord, the day the site lists the row under, is history: the row  *)
(*         loop does not read it                                           *)
(***************************************************************************)
SiteKey(e) ==
    (((e.ord - EpochOrd) * 2 + (IF e.tk = "hm" THEN 1 ELSE 0)) * 1440
        + e.h * 60 + e.mi) * 16 + e.n

RECURSIVE SiteOrder(_)
SiteOrder(S) ==
    IF S = {} THEN <<>>
    ELSE The({ <<e>> \o The({ SiteOrder(rest) : rest \in {S \ {e}} }) :
                e \in {x \in S : \A z \in S : SiteKey(x) <= SiteKey(z)} })

NoTime == [k |-> "", h12 |-> 0, mi |-> 0, pm |-> FALSE]

\* the text of a time cell: '8:30am', '12:00am', 'All Day', ...
TimeText(e) ==
    IF e.tk = "hm"
      THEN [k |-> "hm", h12 |-> ((e.h + 11) % 12) + 1, mi |-> e.mi, pm |-> e.h >= 12]
      ELSE [k |-> e.tk, h12 |-> 0, mi |-> 0, pm |-> FALSE]

SiteRow(es, i) ==
    LET e      == es[i]
        newday == i = 1 \/ es[i - 1].ord # e.ord
        newtm  == newday \/ TimeText(es[i - 1]) # TimeText(e)
    IN  [md  |-> IF ~newday \/ e.dtxt = "none" THEN <<0, 0>>
                 ELSE IF e.dtxt = "bad" THEN <<0, DayOf(e.ord)>>
                 ELSE <<MonthOf(e.ord), DayOf(e.ord)>>,
         tm  |-> IF newtm THEN TimeText(e) ELSE NoTime,
         cur |-> e.cur,
         ev  |-> e.name,
         imp |-> e.imp,
         actual   |-> e.actual,
         forecast |-> e.forecast,
         previous |-> e.previous,
         ord      |-> e.ord]

SiteRows(S) ==
    The({ [i \in 1..Len(es) |-> SiteRow(es, i)] : es \in {SiteOrder(S)} })

\* the Sunday on or before a day
WeekStart(o) == o - (o % 7)

\* the page the site serves for a URL of dt_to_url
UrlPage(S, url) ==
    LET o == Ordinal(url.str.y, url.str.mo, IF url.mode = "month" THEN 1 ELSE url.str.d)
    IN  IF url.mode = "day" THEN SiteRows({e \in S : e.ord = o})
        ELSE IF url.mode = "week"
          THEN SiteRows({e \in S : WeekStart(e.ord) = WeekStart(o)})
          ELSE SiteRows({e \in S : YearOf(e.ord) = url.str.y
                                    /\ MonthOf(e.ord) = url.str.mo})

\* the page of the week the calendar widget shows
WeekPage(S, sunday) == SiteRows({e \in S : WeekStart(e.ord) = sunday})

(***************************************************************************)
(* scrap: the row loop of one page (lines 856-963).                        *)
(***************************************************************************)
\* the zone get_timezone returns
ff_timezone == TZ_NEW_YORK

\* (a - b).days of two aware datetimes
DeltaDays(a, b) == (Inst(a) - Inst(b)) \div (2 * 86400)

\* the state of the row loop: the local variables date, first_date_on_page and
\* last_date_on_page, the records written and error lines appended so far
\* (errpos: how many records preceded each error line),
\* and st: "ok", "loop" (the early return of line 895) or "crash" (an
\* exception no handler catches).  expected collects, for the claims, the
\* records of the rows that carry a name, a currency and a datetime between
\* the original start and the horizon.
RowsStart ==
    [date |-> None, first |-> None, last |-> None, writes |-> <<>>,
     errs |-> <<>>, errpos |-> <<>>, expected |-> {}, st |-> "ok",
     log |-> <<>>]

\* week_count while the page is processed (line 830 has incremented it)
WeekNow == week_count + 1

\* the year a date cell is read in (lines 871-874)
RowYear(acc) ==
    IF acc.date = None THEN YearOf(start_date.ord)
    ELSE YearOf(get_next_dt(acc.date, "day").ord)

\* strptime of year and date cell succeeds
DateParses(acc, row) ==
    /\ row.md[1] \in 1..12
    /\ row.md[2] \in 1..DaysInMonth(RowYear(acc), row.md[1])

\* the date a date cell yields (lines 875-884)
ParsedDate(acc, row) ==
    LET y == RowYear(acc)
        back == /\ args.use_calendar_nav
                /\ acc.first = None
                /\ row.md[1] = 12
                /\ MonthOf(start_date.ord) = 1
    IN  DT(Ordinal(IF back THEN y - 1 ELSE y, row.md[1], row.md[2]),
           0, 0, 0, 0, ff_timezone)

\* the days before the original start that a page may begin (lines 893, 981)
LoopTolerance == 7

\* A mutation of LoopDetected: measured from the moving cursor
LoopDetectedFromCursor(first) ==
    DeltaDays(start_date, first) > LoopTolerance

\* days_before_start > 7 (lines 892-893 and 980-981)
LoopDetected(first) ==
    DeltaDays(original_start_date, first) > LoopTolerance

\* the date after the date cell of a row: acc with date, first and last set
AfterDateCell(acc, row) ==
    IF row.md = <<0, 0>> THEN acc
    ELSE IF ~DateParses(acc, row) THEN [acc EXCEPT !.st = "ValueError"]
    ELSE LET d == ParsedDate(acc, row)
             f == IF acc.first = None THEN d ELSE acc.first
         IN  IF /\ acc.first = None
                /\ args.use_calendar_nav
                /\ WeekNow > 1
                /\ LoopDetected(d)
               THEN [acc EXCEPT !.date = d, !.first = f, !.st = "loop"]
               ELSE [acc EXCEPT !.date = d, !.first = f, !.last = d]

\* the date after the time cell of a row (lines 897-907)
AfterTimeCell(acc, row) ==
    IF acc.st # "ok" \/ row.tm.k = "" \/ acc.date = None THEN acc
    ELSE IF row.tm.k = "day"
      THEN [acc EXCEPT !.date = [acc.date EXCEPT !.h = 23, !.mi = 59, !.s = 59]]
    ELSE IF row.tm.k = "data"
      THEN [acc EXCEPT !.date = [acc.date EXCEPT !.h = 0, !.mi = 0, !.s = 1]]
    ELSE IF row.tm.k = "hm"
      THEN [acc EXCEPT !.date =
               [acc.date EXCEPT !.h = (row.tm.h12 % 12) + (IF row.tm.pm THEN 12 ELSE 0),
                                !.mi = row.tm.mi, !.s = 0]]
    ELSE [acc EXCEPT !.st = "ValueError"]

\* the impact cell holds no span: data.find('span')['title'] raises TypeError
AfterImpactCell(acc, row) ==
    IF acc.st = "ok" /\ row.imp = "nospan" THEN [acc EXCEPT !.st = "TypeError"] ELSE acc

\* A mutation of RowSkipped: a row dated exactly at the cursor is kept
RowSkippedBeforeCursor(date) ==
    \/ ~args.use_calendar_nav /\ Inst(date) < Inst(start_date)
    \/ Inst(date) > Inst(end_date)

\* the date filters of lines 926-933
RowSkipped(date) ==
    \/ ~args.use_calendar_nav /\ Inst(date) <= Inst(start_date)
    \/ Inst(date) > Inst(end_date)

\* A mutation of AfterFilters: a row without event name or currency is
\* written like any other
AfterFiltersUnnamedWritten(acc, row) ==
    IF acc.date = None THEN acc
    ELSE IF acc.date.s = 1 THEN [acc EXCEPT !.st = "ValueError"]
    ELSE IF RowSkipped(acc.date) THEN acc
    ELSE [acc EXCEPT !.writes = Append(acc.writes, RowRecord(acc.date, row))]

\* lines 921-954, for a row whose cells raised nothing
AfterFilters(acc, row) ==
    IF acc.date = None THEN acc
    ELSE IF acc.date.s = 1 THEN [acc EXCEPT !.st = "ValueError"]
    ELSE LET named == row.ev # <<>> /\ row.cur # ""
         IN  The({ [acc EXCEPT
                      !.expected = IF /\ named
                                      /\ Inst(original_start_date) <= Inst(acc.date)
                                      /\ Inst(acc.date) <= Inst(end_date)
                                     THEN @ \cup {rec} ELSE @,
                      !.writes = IF RowSkipped(acc.date) \/ ~named
                                   THEN @ ELSE Append(@, rec)] :
                   rec \in {RowRecord(acc.date, row)} })

\* the handlers of lines 956-963
AfterHandlers(acc) ==
    IF acc.st = "TypeError"
      THEN [acc EXCEPT !.st = "ok",
                       !.errs = Append(acc.errs, <<acc.date, "No Event Found">>),
                       !.errpos = Append(acc.errpos, Len(acc.writes))]
    ELSE IF acc.st = "ValueError"
      THEN IF acc.date = None
             THEN [acc EXCEPT !.st = "crash"]
             ELSE [acc EXCEPT !.st = "ok",
                     !.errs = Append(acc.errs,
                        <<[acc.date EXCEPT !.s = 0], "Data For Past Month">>),
                     !.errpos = Append(acc.errpos, Len(acc.writes))]
    ELSE acc

\* what one pass of the for loop did, kept for the properties: what the try
\* block raised ("ok" nothing, "loop" the early return), how the pass ended
\* ("crash": the handler itself raised), whether the row was left without a
\* date, whether it has an event name and a currency, the records and
\* error lines it added, and, for a row whose date cell was read, the day
\* it was read as and the day the site lists it under
RowEntry(acc, tried, ended, row) ==
    [raised  |-> tried.st,
     ended   |-> ended.st,
     nodate  |-> tried.date = None,
     named   |-> row.ev # <<>> /\ row.cur # "",
     written |-> Len(ended.writes) - Len(acc.writes),
     logged  |-> Len(ended.errs) - Len(acc.errs),
     daterow |-> row.md # <<0, 0>> /\ DateParses(acc, row),
     day     |-> IF row.md # <<0, 0>> /\ DateParses(acc, row)
                   THEN tried.date.ord ELSE 0,
     listed  |-> IF row.md # <<0, 0>> /\ DateParses(acc, row)
                   THEN row.ord ELSE 0]

\* one pass of the for loop of line 861: the cells in the order of `fields`,
\* then the filters, then the handlers
RowStep(acc, row) ==
    The({ The({ [a5 EXCEPT !.log = Append(acc.log, RowEntry(acc, a4, a5, row))] :
                  a5 \in { AfterHandlers(a4) } }) :
            a4 \in { IF a3.st = "ok" THEN AfterFilters(a3, row) ELSE a3 :
              a3 \in { AfterImpactCell(a2, row) :
                a2 \in { AfterTimeCell(a1, row) :
                  a1 \in { AfterDateCell(acc, row) } } } } })

RECURSIVE ProcessRows(_, _, _)
ProcessRows(rows, i, acc) ==
    IF i > Len(rows) \/ acc.st \in {"loop", "crash"} THEN acc
    ELSE The({ ProcessRows(rows, i + 1, a) :
                 a \in { RowStep(acc, row) : row \in {rows[i]} } })

(***************************************************************************)
(* The resume cursor.                                                      *)
(***************************************************************************)
\* datetime(year=2007, month=1, day=1, hour=0, minute=0, tzinfo=timezone)
Origin(timezone) == DT(Ordinal(2007, 1, 1), 0, 0, 0, 0, timezone)

\* The sink file is a sequence of characters [c, k, v].  A plain character
\* has k = "": "nl" the newline, "sp" a blank, "{" "}" "[" "]" "q" (a double
\* quote) "5" (a digit), "x" any other text, "xff" a byte that is not UTF-8.
\* A character with k # "" stands for one 'key: value' member of a JSON
\* object: k the key, c the type of the value ("num" a number v, "null",
\* "datestr" the text '%Y-%m-%d %H:%M:%S' of second v, "str" other text).
Ch(c) == [c |-> c, k |-> "", v |-> 0]

Member(k, c, v) == [c |-> c, k |-> k, v |-> v]

NL == Ch("nl")

\* the line write_jsonl_record appends for a record
RecordLine(rec) ==
    << Ch("{"),
       Member("event_id", "str", 0),
       Member("timestamp_utc", "num", rec.timestamp_utc),
       Member("datetime_utc", "datestr", rec.timestamp_utc),
       Ch("}"),
       NL >>

RECURSIVE RecordLines(_)
RecordLines(entries) ==
    IF entries = <<>> THEN <<>>
    ELSE RecordLine(Head(entries).rec) \o RecordLines(Tail(entries))

\* the file at JSONL_FILENAME: it exists once a record has been appended
JsonlFile == [exists |-> sink # <<>>, bytes |-> RecordLines(sink)]

\* lines 1020-1024: from position pos (0-based) backwards, the position just
\* after the nearest newline; position 0 is never examined
RECURSIVE SeekLastLine(_, _)
SeekLastLine(bytes, pos) ==
    IF pos <= 0 THEN 0
    ELSE IF bytes[pos + 1] = NL THEN pos + 1
    ELSE SeekLastLine(bytes, pos - 1)

\* file.readline() at position pos: up to and including the next newline
ReadLine(bytes, pos) ==
    LET nls == { i \in (pos + 1)..Len(bytes) : bytes[i] = NL }
    IN  SubSeq(bytes, pos + 1,
               IF nls = {} THEN Len(bytes)
               ELSE CHOOSE i \in nls : \A j \in nls : i <= j)

\* bytes.decode() raises UnicodeDecodeError, a ValueError
Undecodable(line) == \E i \in 1..Len(line) : line[i].c = "xff"

\* str.strip()
Strip(line) ==
    LET keep == { i \in 1..Len(line) : line[i].c \notin {"nl", "sp"} }
    IN  IF keep = {} THEN <<>>
        ELSE SubSeq(line,
                    CHOOSE i \in keep : \A j \in keep : i <= j,
                    CHOOSE i \in keep : \A j \in keep : i >= j)

\* json.loads(last_line): the kind of value, and the members of an object
json_loads(line) ==
    LET n == Len(line)
    IN  IF n >= 1 /\ \A i \in 1..n : line[i].c = "5"
          THEN [kind |-> "number", members |-> <<>>]
        ELSE IF line = <<Ch("["), Ch("]")>>
          THEN [kind |-> "array", members |-> <<>>]
        ELSE IF line = <<Ch("q"), Ch("q")>>
          THEN [kind |-> "string", members |-> <<>>]
        ELSE IF /\ n >= 2
                /\ line[1] = Ch("{")
                /\ line[n] = Ch("}")
                /\ \A i \in 2..(n - 1) : line[i].k # ""
          THEN [kind |-> "object", members |-> SubSeq(line, 2, n - 1)]
        ELSE [kind |-> "JSONDecodeError", members |-> <<>>]

\* key in record, and record[key] (the last member of that key)
HasKey(record, key) ==
    \E i \in 1..Len(record.members) : record.members[i].k = key

Item(record, key) ==
    LET at == { i \in 1..Len(record.members) : record.members[i].k = key }
    IN  record.members[CHOOSE i \in at : \A j \in at : i >= j]

\* the outcome of a call that ends in a TypeError, which get_start_dt does
\* not catch
TypeError == DT(0 - 1, 0, 0, 0, 0, 0)

\* lines 1031-1040: the cursor a decoded record gives
RecordCursor(record, timezone) ==
    IF record.kind = "JSONDecodeError" THEN Origin(timezone)
    ELSE IF record.kind = "number" THEN TypeError
    ELSE IF record.kind # "object" THEN Origin(timezone)
    ELSE IF HasKey(record, "timestamp_utc")
      THEN IF Item(record, "timestamp_utc").c = "num"
             THEN FromTimestamp(Item(record, "timestamp_utc").v)
           ELSE TypeError
    ELSE IF HasKey(record, "datetime_utc")
      THEN IF Item(record, "datetime_utc").c = "datestr"
             THEN FromTimestamp(Item(record, "datetime_utc").v)
           ELSE IF Item(record, "datetime_utc").c = "str"
             THEN Origin(timezone)
           ELSE TypeError
    ELSE Origin(timezone)

\* get_start_dt(timezone) of a given file
get_start_dt_from(file, timezone) ==
    IF ~file.exists THEN Origin(timezone)
    ELSE IF Len(file.bytes) < 2 THEN Origin(timezone)
    ELSE LET raw == ReadLine(file.bytes,
                             SeekLastLine(file.bytes, Len(file.bytes) - 2))
             last_line == Strip(raw)
         IN  IF Undecodable(raw) THEN Origin(timezone)
             ELSE IF last_line = <<>> THEN Origin(timezone)
             ELSE RecordCursor(json_loads(last_line), timezone)

\* get_start_dt(timezone): the cursor the sink file gives
get_start_dt(timezone) == get_start_dt_from(JsonlFile, timezone)

(***************************************************************************)
(* scrap: start-up (lines 786-822).                                        *)
(***************************************************************************)
MAX_RETRIES == 3

BASE_DELAY == 2

MAX_DELAY == 30

(***************************************************************************)
(* retry_with_backoff(func, ...).  outcomes[k] is what the k-th call of    *)
(* func does, [ok, v]: it returns v, or raises the error v; jitter[k] is   *)
(* random.uniform(0, 1) of the k-th wait, in whole seconds.  The result    *)
(* holds the calls and sleeps made, in order, and what reaches the caller. *)
(***************************************************************************)
RECURSIVE RetryFrom(_, _, _, _)

\* A mutation of RetryFrom: the wait is made after the last attempt too
RetryFromSleepsLast(outcomes, jitter, attempt, events) ==
    LET called == Append(events, [e |-> "call", n |-> attempt + 1])
        slept  == Append(called, [e |-> "sleep", n |-> BASE_DELAY])
    IN  IF attempt >= MAX_RETRIES
          THEN [events |-> events, raised |-> FALSE, v |-> 0]
        ELSE IF outcomes[attempt + 1].ok
          THEN [events |-> called, raised |-> FALSE, v |-> outcomes[attempt + 1].v]
        ELSE IF attempt = MAX_RETRIES - 1
          THEN [events |-> slept, raised |-> TRUE, v |-> outcomes[attempt + 1].v]
        ELSE RetryFrom(outcomes, jitter, attempt + 1, slept)

\* the for loop of lines 470-480 from the given attempt on
RetryFrom(outcomes, jitter, attempt, events) ==
    LET called == Append(events, [e |-> "call", n |-> attempt + 1])
        wait   == BASE_DELAY * (2 ^ attempt) + jitter[attempt + 1]
        delay  == IF wait < MAX_DELAY THEN wait ELSE MAX_DELAY
    IN  IF attempt >= MAX_RETRIES
          THEN [events |-> events, raised |-> FALSE, v |-> 0]
        ELSE IF outcomes[attempt + 1].ok
          THEN [events |-> called, raised |-> FALSE, v |-> outcomes[attempt + 1].v]
        ELSE IF attempt = MAX_RETRIES - 1
          THEN [events |-> called, raised |-> TRUE, v |-> outcomes[attempt + 1].v]
        ELSE RetryFrom(outcomes, jitter, attempt + 1,
                       Append(called, [e |-> "sleep", n |-> delay]))

retry_with_backoff(outcomes, jitter) == RetryFrom(outcomes, jitter, 0, <<>>)

\* the first day of the site's events: Sunday 31 December 2023
W0 == Ordinal(2023, 12, 31)

\* days_ahead values tried
DaysAheadSet == {1, 3, 7}

\* --start-date values tried (0: not given), as ordinals
StartOverrides == {0, W0 - 1, W0 + 1, W0 + 2, W0 + 5, W0 + 10}

\* --future-only is tried without --start-date and with one
ArgSets ==
    { a \in [start_date_override : StartOverrides,
             days_ahead          : DaysAheadSet,
             future_only         : BOOLEAN,
             use_calendar_nav    : BOOLEAN] :
        a.future_only => a.start_date_override \in {0, W0 + 2} }

\* start_date as lines 791-800 determine it
InitialCursor(a) ==
    IF a.start_date_override # 0
      THEN DT(a.start_date_override, 0, 0, 0, 0, ff_timezone)
    ELSE IF a.future_only
      THEN [AsTimezone(now, ff_timezone) EXCEPT !.h = 0, !.mi = 0, !.s = 0]
    ELSE get_start_dt(ff_timezone)

\* history of a run, kept for the properties: page requests made, requests
\* that failed for good, widget quirks, pages processed, the records expected
\* of the pages processed, how the latest request ended, the cursor it was
\* made at, the sink's length when the run was stopped, and the failed
\* requests of the run that was stopped before this one, and the number of
\* rows of the latest page processed with what each pass over them did, and
\* the calls of the fetch function made for the latest request that failed
NoHist ==
    [fetches |-> 0, failures |-> 0, quirks |-> 0, pages |-> 0, expected |-> {},
     last_fetch |-> "none", prev_cursor |-> None, killed_at |-> 0,
     earlier_failures |-> 0, rows |-> 0, rowlog |-> <<>>, attempts |-> 0]

\* what navigate_to_date leaves the widget showing: the week of the target
\* date, or the first week of its month (line 620), of the cursor's own
\* year, month and day
NavigatedWeek(target, how) ==
    IF how = "week" THEN WeekStart(target.ord)
    ELSE WeekStart(Ordinal(YearOf(target.ord), MonthOf(target.ord), 1))

Begin(a) ==
    LET sd == InitialCursor(a)
    IN  /\ args' = a
        /\ start_date' = sd
        /\ end_date' = PlusDays(sd, a.days_ahead)
        /\ original_start_date' = sd
        /\ week_count' = 0
        /\ first_date_on_page' = None
        /\ last_date_on_page' = None
        /\ hist' = [NoHist EXCEPT !.killed_at = hist.killed_at,
                                  !.earlier_failures = hist.failures]
        /\ IF a.use_calendar_nav
             THEN \E how \in {"week", "first", "fail"} :
                    IF how = "fail"
                      THEN pc' = "done" /\ result' = "nav_failed"
                           /\ UNCHANGED site_week
                      ELSE pc' = "loop" /\ result' = ""
                           /\ site_week' = NavigatedWeek(sd, how)
             ELSE pc' = "loop" /\ result' = "" /\ UNCHANGED site_week
        /\ UNCHANGED <<now, local_off, planner_vars, harness_vars, site, sink, errors>>

\* scrap is called
Start ==
    /\ pc = "idle"
    /\ run' = 1
    /\ \E a \in ArgSets : Begin(a)

(***************************************************************************)
(* scrap: one pass of the while loop (lines 823-995).                      *)
(***************************************************************************)
\* page requests of one run the model follows
MaxFetches == 9
\* fetches that fail for good, per run
MaxFailures == 2
\* clicks after which the widget shows the same week again or an early one
MaxQuirks == 1

\* the week the widget jumps back to when its pagination wraps
SiteFirstWeek == W0 - 7

Quirk(how) == IF how \in {"stale", "wrap"} THEN 1 ELSE 0

\* the sink entries of the records a page wrote; cursor and run are history
SinkEntries(writes) ==
    [i \in 1..Len(writes) |->
        [rec |-> writes[i], cursor |-> start_date, run |-> run]]

\* the error lines appended before the k-th record of the page was written
ErrorsBefore(acc, k) ==
    LET idx == {i \in 1..Len(acc.errs) : acc.errpos[i] < k}
    IN  [i \in 1..Cardinality(idx) |-> acc.errs[i]]

Fetched(kind) ==
    [hist EXCEPT !.fetches = hist.fetches + 1, !.last_fetch = kind,
                 !.prev_cursor = start_date,
                 !.failures = hist.failures + (IF kind = "failed" THEN 1 ELSE 0)]

\* A mutation of CalendarAfterPage: a page ending exactly at the horizon does
\* not end the scrape
CalendarAfterPageStrict(acc) ==
    IF acc.last # None /\ Inst(acc.last) > Inst(end_date)
      THEN pc' = "done" /\ result' = "end_date" /\ UNCHANGED start_date
    ELSE IF acc.first # None /\ LoopDetected(acc.first)
      THEN pc' = "done" /\ result' = "loop" /\ UNCHANGED start_date
    ELSE /\ pc' = "loop"
         /\ result' = ""
         /\ start_date' = IF acc.last # None THEN acc.last ELSE start_date

\* lines 971-986 after the rows of a page fetched in calendar mode
CalendarAfterPage(acc) ==
    IF acc.last # None /\ Inst(acc.last) >= Inst(end_date)
      THEN pc' = "done" /\ result' = "end_date" /\ UNCHANGED start_date
    ELSE IF acc.first # None /\ LoopDetected(acc.first)
      THEN pc' = "done" /\ result' = "loop" /\ UNCHANGED start_date
    ELSE /\ pc' = "loop"
         /\ result' = ""
         /\ start_date' = IF acc.last # None THEN acc.last ELSE start_date

\* lines 987-991 after the rows of a page fetched by URL
UrlAfterPage(acc, url) ==
    IF Inst(start_date) > Inst(end_date)
      THEN pc' = "done" /\ result' = "end_date" /\ UNCHANGED start_date
      ELSE /\ pc' = "loop"
           /\ result' = ""
           /\ start_date' = get_next_dt(start_date, get_mode(url))

\* the rows of a fetched page are processed and the loop's checks made
PageDone(rows, url, how) ==
    \E rs \in {rows} : \E acc \in {ProcessRows(rs, 1, RowsStart)} :
        /\ sink' = sink \o SinkEntries(acc.writes)
        /\ errors' = errors \o acc.errs
        /\ first_date_on_page' = acc.first
        /\ last_date_on_page' = acc.last
        /\ week_count' = week_count + 1
        /\ hist' = [Fetched("ok") EXCEPT
                      !.pages = hist.pages + 1,
                      !.quirks = hist.quirks + Quirk(how),
                      !.expected = hist.expected \cup acc.expected,
                      !.rows = Len(rs),
                      !.rowlog = acc.log]
        /\ IF acc.st = "loop"
             THEN pc' = "done" /\ result' = "loop" /\ UNCHANGED start_date
           ELSE IF acc.st = "crash"
             THEN pc' = "done" /\ result' = "crash" /\ UNCHANGED start_date
           ELSE IF args.use_calendar_nav THEN CalendarAfterPage(acc)
           ELSE UrlAfterPage(acc, url)

\* the process is stopped while the rows of a fetched page are processed,
\* right after the k-th record of the page (k >= 1) is written
PageKilled(rows) ==
    \E rs \in {rows} : \E acc \in {ProcessRows(rs, 1, RowsStart)} :
        \E k \in 1..Len(acc.writes) :
            /\ sink' = sink \o SinkEntries(SubSeq(acc.writes, 1, k))
            /\ errors' = errors \o ErrorsBefore(acc, k)
            /\ week_count' = week_count + 1
            /\ hist' = [Fetched("ok") EXCEPT !.killed_at = Len(sink) + k]
            /\ pc' = "killed"
            /\ result' = "killed"
            /\ UNCHANGED <<start_date, first_date_on_page, last_date_on_page>>

CanFetch == pc = "loop" /\ hist.fetches < MaxFetches

\* lines 838-842: dt_to_url raises, nothing is left to fetch
\* A mutation of UrlNotCompleted: the window that is not completed yet is
\* skipped like a failed fetch and the loop goes on
UrlNotCompletedSkipped ==
    /\ pc = "loop"
    /\ ~args.use_calendar_nav
    /\ dt_to_url(start_date, TRUE) = NotCompleted
    /\ start_date' = get_next_dt(start_date, "day")
    /\ week_count' = week_count + 1
    /\ UNCHANGED <<now, local_off, planner_vars, harness_vars, site, site_week, sink, errors, pc,
                   result, run, args, end_date, original_start_date,
                   first_date_on_page, last_date_on_page, hist>>

UrlNotCompleted ==
    /\ pc = "loop"
    /\ ~args.use_calendar_nav
    /\ dt_to_url(start_date, TRUE) = NotCompleted
    /\ pc' = "done"
    /\ result' = "all_data"
    /\ week_count' = week_count + 1
    /\ UNCHANGED <<now, local_off, planner_vars, harness_vars, site, site_week, sink, errors, run,
                   args, start_date, end_date, original_start_date,
                   first_date_on_page, last_date_on_page, hist>>

\* the calls retry_with_backoff makes of a function that fails every time
FailingCalls ==
    LET r == retry_with_backoff([k \in 1..(MAX_RETRIES + 1) |-> [ok |-> FALSE, v |-> 1]],
                                [k \in 1..MAX_RETRIES |-> 0])
    IN  Cardinality({ i \in 1..Len(r.events) : r.events[i].e = "call" })

\* lines 844-851: retry_with_backoff gives up after MAX_RETRIES attempts
UrlFetchFailed ==
    /\ CanFetch
    /\ ~args.use_calendar_nav
    /\ hist.failures < MaxFailures
    /\ LET url == dt_to_url(start_date, TRUE)
       IN  /\ url # NotCompleted
           /\ start_date' = get_next_dt(start_date, get_mode(url))
    /\ week_count' = week_count + 1
    /\ hist' = [Fetched("failed") EXCEPT !.attempts = FailingCalls]
    /\ UNCHANGED <<now, local_off, planner_vars, harness_vars, site, site_week, sink, errors, pc,
                   result, run, args, end_date, original_start_date,
                   first_date_on_page, last_date_on_page>>

\* lines 839-844 and 853-995: the page of the cursor's window is fetched
UrlPageFetched ==
    /\ CanFetch
    /\ ~args.use_calendar_nav
    /\ LET url == dt_to_url(start_date, TRUE)
       IN  /\ url # NotCompleted
           /\ PageDone(UrlPage(site, url), url, "none")
    /\ UNCHANGED <<now, local_off, planner_vars, harness_vars, site, site_week, run, args,
                   end_date, original_start_date>>

UrlPageInterrupted ==
    /\ CanFetch
    /\ ~args.use_calendar_nav
    /\ run = 1
    /\ LET url == dt_to_url(start_date, TRUE)
       IN  /\ url # NotCompleted
           /\ PageKilled(UrlPage(site, url))
    /\ UNCHANGED <<now, local_off, planner_vars, harness_vars, site, site_week, run, args,
                   end_date, original_start_date>>

\* lines 825-828: click_next_week returns False
CalClickFailed ==
    /\ pc = "loop"
    /\ args.use_calendar_nav
    /\ week_count > 0
    /\ pc' = "done"
    /\ result' = "click_failed"
    /\ UNCHANGED <<now, local_off, planner_vars, harness_vars, site, site_week, sink, errors, run,
                   args, start_date, end_date, original_start_date, week_count,
                   first_date_on_page, last_date_on_page, hist>>

\* the week the widget shows after click_next_week returned True: the next
\* one, the same one (the page had not changed when it was read), or the
\* site's first week (the pagination wrapped)
Clicked(how) ==
    IF week_count = 0 \/ how = "stale" THEN site_week
    ELSE IF how = "next" THEN site_week + 7
    ELSE SiteFirstWeek

ClickWays ==
    IF week_count = 0 THEN {"none"}
    ELSE IF hist.quirks < MaxQuirks THEN {"next", "stale", "wrap"}
    ELSE {"next"}

\* lines 834-848: fetch_page_after_navigation raises; the loop is left
CalFetchFailed ==
    /\ CanFetch
    /\ args.use_calendar_nav
    /\ pc' = "done"
    /\ result' = "fetch_failed"
    /\ week_count' = week_count + 1
    /\ hist' = [Fetched("failed") EXCEPT !.attempts = 1]
    /\ UNCHANGED <<now, local_off, planner_vars, harness_vars, site, site_week, sink, errors, run,
                   args, start_date, end_date, original_start_date,
                   first_date_on_page, last_date_on_page>>

\* lines 825-835 and 853-995: the week the widget shows is read
CalPageFetched ==
    /\ CanFetch
    /\ args.use_calendar_nav
    /\ \E how \in ClickWays :
         /\ site_week' = Clicked(how)
         /\ PageDone(WeekPage(site, Clicked(how)), NotCompleted, how)
         /\ UNCHANGED <<now, local_off, planner_vars, harness_vars, site, run, args, end_date,
                        original_start_date>>

CalPageInterrupted ==
    /\ CanFetch
    /\ args.use_calendar_nav
    /\ run = 1
    /\ site_week' = Clicked("next")
    /\ PageKilled(WeekPage(site, Clicked("next")))
    /\ UNCHANGED <<now, local_off, planner_vars, harness_vars, site, run, args, end_date,
                   original_start_date>>

\* the command is run again without --start-date and --future-only
Resume ==
    /\ pc = "killed"
    /\ run = 1
    /\ run' = 2
    /\ Begin([args EXCEPT !.start_date_override = 0, !.future_only = FALSE])

(***************************************************************************)
(* The sites and clocks tried, and the specification of scrap.             *)
(***************************************************************************)
Ev(n, day, tk, h, mi, name) ==
    [n |-> n, ord |-> W0 + day, dtxt |-> "ok", tk |-> tk, h |-> h, mi |-> mi,
     name |-> name, cur |-> "USD", imp |-> "High Impact Expected",
     actual |-> <<>>, forecast |-> <<>>, previous |-> <<>>]

\* the sites tried, each a set of events
Sites ==
    LET
        \* Tuesday 2 January 2024: midnight, two releases at 8:30am, two late ones
        EvMidnight == Ev(1, 2, "hm", 0, 0, <<"A">>)
        EvCPIm     ==
            [Ev(2, 2, "hm", 8, 30, <<"C", "P", "I", " ", "m", "/", "m">>)
                EXCEPT !.actual = <<"0", ".", "3", "%">>,
                       !.forecast = <<"0", ".", "2", "%">>,
                       !.previous = <<"0", ".", "1", "%">>]
        EvCPIy     ==
            [Ev(3, 2, "hm", 8, 30, <<"C", "P", "I", " ", "y", "/", "y">>)
                EXCEPT !.forecast = <<"3", ".", "2", "%">>,
                       !.previous = <<"3", ".", "1", "%">>]
        EvLate     == Ev(4, 2, "hm", 21, 0, <<"D">>)
        EvLater    == Ev(5, 2, "hm", 22, 0, <<"E">>)
        \* Wednesday 3 January, Monday 8 January, Friday 12 January
        EvWed      == Ev(6, 3, "hm", 10, 0, <<"F">>)
        EvNextMon  == Ev(7, 8, "hm", 9, 0, <<"H">>)
        EvNextFri  == Ev(8, 12, "hm", 0, 0, <<"B">>)
        \* holidays: Monday 25 December 2023, Sunday 31 December, Monday 1 January
        EvXmas     == Ev(9, 0 - 6, "day", 0, 0, <<"G">>)
        EvNYE      == Ev(10, 0, "day", 0, 0, <<"I">>)
        EvNewYear  == Ev(11, 1, "day", 0, 0, <<"G", "2">>)
        \* rows the row loop gives up on
        EvTentative == Ev(13, 3, "bad", 0, 0, <<"F", "1">>)
        EvPending   == Ev(14, 3, "data", 0, 0, <<"F", "2">>)
        EvNoImpact  == [Ev(15, 2, "hm", 8, 30, <<"F", "3">>) EXCEPT !.imp = "nospan"]
        EvNoName    == Ev(0, 2, "hm", 7, 0, <<>>)
        EvBadDate   == [Ev(0, 9, "hm", 7, 0, <<"F", "0">>) EXCEPT !.dtxt = "bad"]
        \* Sunday 31 December, on a row whose date cell is blank
        EvNoDate    == [Ev(12, 0, "hm", 6, 0, <<"F", "4">>) EXCEPT !.dtxt = "none"]
    IN
        { {EvMidnight, EvCPIm, EvCPIy, EvWed},
          {EvCPIm, EvLate, EvLater, EvNextMon},
          {EvXmas, EvNYE, EvWed, EvNextFri},
          {EvNewYear, EvNoName, EvNoImpact, EvTentative, EvPending, EvNoDate,
           EvBadDate} }

\* the clocks tried: long after the events (15 March 2024), during them
\* (Wednesday 3 January 2024, 10:15 at the venue), and late that Wednesday on
\* a machine whose local date is already Thursday
Clocks ==
    { <<DT(W0 + 75, 15, 15, 7, 1, TZ_UTC), TZ_NEW_YORK>>,
      <<DT(W0 + 3, 15, 15, 7, 1, TZ_UTC), TZ_NEW_YORK>>,
      <<DT(W0 + 4, 3, 0, 7, 1, TZ_UTC), 9>> }

PlannerOff ==
    /\ p_pc = "off"
    /\ p_date = None
    /\ p_allow = FALSE
    /\ p_url = NotCompleted

HarnessOff ==
    /\ h_pc = "off"
    /\ h_in = <<>>
    /\ h_out = <<>>

Init ==
    /\ \E c \in Clocks : now = c[1] /\ local_off = c[2]
    /\ PlannerOff
    /\ HarnessOff
    /\ site \in Sites
    /\ site_week = 0
    /\ sink = <<>>
    /\ errors = <<>>
    /\ pc = "idle"
    /\ result = ""
    /\ run = 0
    /\ args = [start_date_override |-> 0, days_ahead |-> 0,
               future_only |-> FALSE, use_calendar_nav |-> FALSE]
    /\ start_date = None
    /\ end_date = None
    /\ original_start_date = None
    /\ week_count = 0
    /\ first_date_on_page = None
    /\ last_date_on_page = None
    /\ hist = NoHist

Next ==
    \/ Start
    \/ UrlNotCompleted
    \/ UrlFetchFailed
    \/ UrlPageFetched
    \/ UrlPageInterrupted
    \/ CalClickFailed
    \/ CalFetchFailed
    \/ CalPageFetched
    \/ CalPageInterrupted
    \/ Resume

Spec == Init /\ [][Next]_vars

(***************************************************************************)
(* Planner harness: dt_to_url applied to a cursor and a clock drawn from   *)
(* bounded sets.                                                           *)
(***************************************************************************)
\* first cursor day of the harness: Sunday 24 December 2023
PlanBase == Ordinal(2023, 12, 24)
\* cursor days PlanBase .. PlanBase + PlanDays, clock days likewise
PlanDays == 45

PlanTimes == { <<0, 0, 0>>, <<13, 30, 0>>, <<23, 59, 59>> }

PlanCursors ==
    { DT(PlanBase + k, t[1], t[2], t[3], 0, off) :
        k \in 0..PlanDays, t \in PlanTimes, off \in {TZ_NEW_YORK, TZ_UTC} }

PlanClocks ==
    { DT(PlanBase + k, t[1], t[2], 7, 1, TZ_UTC) :
        k \in {0, 8, 9, 10, 15, 39, 40, PlanDays}, t \in { <<2, 15>>, <<17, 40>> } }

ScrapOff ==
    /\ site = {}
    /\ site_week = 0
    /\ sink = <<>>
    /\ errors = <<>>
    /\ pc = "off"
    /\ result = ""
    /\ run = 0
    /\ args = [start_date_override |-> 0, days_ahead |-> 0,
               future_only |-> FALSE, use_calendar_nav |-> FALSE]
    /\ start_date = None
    /\ end_date = None
    /\ original_start_date = None
    /\ week_count = 0
    /\ first_date_on_page = None
    /\ last_date_on_page = None
    /\ hist = NoHist

PlanInit ==
    /\ ScrapOff
    /\ HarnessOff
    /\ now \in PlanClocks
    /\ local_off \in {TZ_NEW_YORK, 9}
    /\ p_pc = "input"
    /\ p_date \in PlanCursors
    /\ p_allow \in BOOLEAN
    /\ p_url = NotCompleted

PlanCall ==
    /\ p_pc = "input"
    /\ p_pc' = "called"
    /\ p_url' = dt_to_url(p_date, p_allow)
    /\ UNCHANGED <<now, local_off, p_date, p_allow, harness_vars, scrap_vars>>

PlanNext == PlanCall

PlanSpec == PlanInit /\ [][PlanNext]_vars

(***************************************************************************)
(* Function harness: get_start_dt, get_next_dt, retry_with_backoff and the *)
(* functions of the record applied to inputs drawn from bounded sets.      *)
(***************************************************************************)
\* two record times, in seconds from the epoch day: Tuesday 2 January 2024
\* 13:30:00 UTC and Friday 5 January 2024 08:15:30 UTC
T1 == (W0 + 2 - EpochOrd) * 86400 + 13 * 3600 + 30 * 60

T2 == (W0 + 5 - EpochOrd) * 86400 + 8 * 3600 + 15 * 60 + 30

\* a line holding the given members
ObjectLine(members) == <<Ch("{")>> \o members \o <<Ch("}")>>

\* the lines tried: records as the scraper writes them, a record followed by
\* blanks, a record with only the datetime_utc text, a blank line, blanks,
\* other text, undecodable bytes, a number, an array, a string, objects
\* lacking both timestamp fields, and timestamp fields of other types
HarnessLines ==
    { ObjectLine(<<Member("event_id", "str", 0),
                   Member("timestamp_utc", "num", T1),
                   Member("datetime_utc", "datestr", T1)>>),
      ObjectLine(<<Member("timestamp_utc", "num", T2)>>) \o <<Ch("sp")>>,
      ObjectLine(<<Member("event_id", "str", 0),
                   Member("datetime_utc", "datestr", T2)>>),
      <<>>,
      <<Ch("sp")>>,
      <<Ch("x")>>,
      <<Ch("{"), Ch("x")>>,
      <<Ch("xff")>>,
      <<Ch("5")>>,
      <<Ch("["), Ch("]")>>,
      <<Ch("q"), Ch("q")>>,
      ObjectLine(<<>>),
      ObjectLine(<<Member("event_id", "str", 0)>>),
      ObjectLine(<<Member("timestamp_utc", "null", 0)>>),
      ObjectLine(<<Member("timestamp_utc", "str", 0),
                   Member("datetime_utc", "datestr", T1)>>),
      ObjectLine(<<Member("datetime_utc", "str", 0)>>),
      ObjectLine(<<Member("datetime_utc", "null", 0)>>) }

\* files of up to MaxLines lines
MaxLines == 2

RECURSIVE JoinLines(_)
JoinLines(lines) ==
    IF lines = <<>> THEN <<>>
    ELSE IF Len(lines) = 1 THEN lines[1]
    ELSE lines[1] \o <<NL>> \o JoinLines(Tail(lines))

\* no file, and every file of the lines tried, ending with a newline or not
HarnessFiles ==
    { [exists |-> FALSE, bytes |-> <<>>] }
    \cup { [exists |-> TRUE,
            bytes  |-> JoinLines(ls) \o (IF final THEN <<NL>> ELSE <<>>)] :
              ls \in UNION { [1..n -> HarnessLines] : n \in 0..MaxLines },
              final \in BOOLEAN }

\* cursors of get_next_dt: the days from PlanBase on, through the end of
\* December, of January and of February 2024, at midnight and later in the
\* day, and the cursors get_start_dt resumes from
NextDays == 70

NextCursors ==
    { DT(PlanBase + k, t[1], t[2], t[3], 0, off) :
        k \in 0..NextDays, t \in PlanTimes, off \in {TZ_NEW_YORK, TZ_UTC} }
    \cup { FromTimestamp(T1), FromTimestamp(T2) }

\* what a call of the wrapped function does: it returns 1 or 2, or raises
\* error 1 or 2
CallOutcomes == [ok : BOOLEAN, v : {1, 2}]

\* event names of up to MaxName characters over a letter, a digit, a blank
\* and an underscore, and longer ones: names that differ in punctuation
\* only, a name of other characters only, names of 20 and more characters
\* that differ at the 20th, at the 21st and at the 22nd, and names with
\* punctuation at the 20th character
MaxName == 3

HarnessNames ==
    LET Long == <<"A", "B", "C", "D", "E", "F", "G", "H", "I", "P",
                  "A", "B", "C", "D", "E", "F", "G", "H", "I">>
    IN  UNION { [1..n -> {"A", "1", " ", "_"}] : n \in 0..MaxName }
        \cup { <<"C", "P", "I", " ", "m", "/", "m">>,
               <<"C", "P", "I", " ", "m", "-", "m">>,
               <<"C", "P", "I", " ", "y", "/", "y">>,
               <<"/", "-", "/">>,
               <<"C", "o", "r", "e", " ", "R", "e", "t", "a", "i", "l", " ",
                 "S", "a", "l", "e", "s", " ", "m", "/", "m">>,
               Long \o <<"A">>, Long \o <<"B">>,
               Long \o <<"A", "C">>, Long \o <<"A", "D">>,
               Long \o <<"A", "C", "E">>,
               Long \o <<" ", "A">>, Long \o <<"/", "-", "A">> }

\* value texts of up to MaxText characters, and longer ones
MaxText == 3

HarnessValues ==
    UNION { [1..n -> {"1", "5", "0", ".", "-", ",", "%", "K", "m", " ",
                      "nbsp", "x"}] : n \in 0..MaxText }
    \cup { <<"0", ".", "3", "%">>, <<"-", "0", ".", "5", "%">>,
           <<"2", "1", "5", "K">>, <<"1", ".", "5", "M">>,
           <<"1", ",", "2", "3", "4", ".", "5", "K">>,
           <<"1", ".", "2", "B">>, <<"3", "T">>, <<"2", ".", "5", "b">>,
           <<"1", ".", "5", "M", "K">>, <<"1", "0", "K", "5">>,
           <<"+", "1", ".", "5">>, <<"1", "nbsp", "0", "0", "0">> }

NoInput ==
    [fn |-> "", file |-> [exists |-> FALSE, bytes |-> <<>>], timezone |-> 0,
     date |-> None, mode |-> "", outcomes |-> <<>>, jitter |-> <<>>,
     name |-> <<>>, currency |-> "", impact |-> "", actual |-> <<>>,
     forecast |-> <<>>, previous |-> <<>>]

\* the arguments tried for function fn
HarnessInputs(fn) ==
    LET \* event datetimes: days at the turn of the year, every hour, in the
        \* venue timezone and in two others
        Dts     == { DT(W0 + d, h, mi, 0, 0, off) :
                       d \in {0, 1}, h \in 0..23, mi \in {0, 30},
                       off \in {TZ_NEW_YORK, TZ_UTC, 9} }
        IdDts   == { d \in Dts : d.h \in {0, 8, 19, 23} }
        IdNames == { n \in HarnessNames : n = <<>> \/ Len(n) > MaxName }
        \* the cell texts of a row, stripped as lines 909-919 leave them
        \* (percentages, and magnitudes)
        Cells   == { <<>>, <<"0">>, <<"x">>, <<"0", ".", "3", "%">>,
                     <<"0", ".", "2", "%">>, <<"-", "0", ".", "5", "%">>,
                     <<"0", ".", "0", "%">> }
        BigCells == { <<>>, <<"2", "1", "5", "K">>, <<"1", ".", "5", "M">>,
                      <<"1", "0", "K", "5">> }
        \* the pairs calculate_outcome compares: short texts, decimals close
        \* to one another, and magnitudes
        Short    == UNION { [1..n -> {"1", "5", "0", ".", "-", "K", "%", "x"}] :
                              n \in 0..2 }
        Decimals == { <<"3", ".", "2">>, <<"3", ".", "0">>, <<"2", ".", "9">>,
                      <<"1", ".", "0", "0", "0", "1">>, <<"1">>,
                      <<"1", ".", "0", "0", "0", "2">>,
                      <<"0", ".", "9", "9", "9", "9">>,
                      <<"-", "1", ".", "0", "0", "0", "1">>, <<"-", "1">> }
        Large    == { <<"2", "1", "5", "K">>, <<"1", ".", "5", "M">>,
                      <<"2", "1", "5", ".", "1", "K">>, <<"0", ".", "2", "M">>,
                      <<"2", "1", "5", ".", "0", "1", "K">> }
    IN  CASE fn = "get_start_dt" ->
               { [NoInput EXCEPT !.fn = "get_start_dt", !.file = f, !.timezone = tz] :
                     f \in HarnessFiles, tz \in {TZ_NEW_YORK, 1} }
          [] fn = "get_next_dt" ->
               { [NoInput EXCEPT !.fn = "get_next_dt", !.date = d, !.mode = m] :
                           d \in NextCursors, m \in {"day", "week", "month"} }
          [] fn = "retry_with_backoff" ->
               { [NoInput EXCEPT !.fn = "retry_with_backoff", !.outcomes = o,
                                        !.jitter = j] :
                           o \in [1..(MAX_RETRIES + 1) -> CallOutcomes],
                           j \in [1..MAX_RETRIES -> {0, 1}] }
          [] fn = "normalize_event_name" ->
               { [NoInput EXCEPT !.fn = "normalize_event_name", !.name = n] :
                           n \in HarnessNames }
          [] fn = "generate_event_id" ->
               { [NoInput EXCEPT !.fn = "generate_event_id", !.name = n,
                                        !.currency = c, !.date = d] :
                           n \in IdNames, c \in {"USD", "JPY"}, d \in IdDts }
          [] fn = "get_trading_session" ->
               { [NoInput EXCEPT !.fn = "get_trading_session", !.date = d] :
                           d \in Dts }
          [] fn = "parse_numeric_value" ->
               { [NoInput EXCEPT !.fn = "parse_numeric_value", !.actual = v] :
                           v \in HarnessValues }
          [] fn = "calculate_outcome" ->
               { [NoInput EXCEPT !.fn = "calculate_outcome", !.actual = p[1],
                                        !.forecast = p[2]] :
                           p \in (Short \X Short) \cup (Decimals \X Decimals)
                                   \cup (Large \X Large) }
          [] fn = "build_event_record" ->
               { [NoInput EXCEPT !.fn = "build_event_record", !.name = n,
                                        !.currency = c, !.date = d, !.impact = i,
                                        !.actual = v[1], !.forecast = v[2],
                                        !.previous = p] :
                           n \in {<<"C", "P", "I", " ", "m", "/", "m">>},
                           c \in {"USD", "XAU"},
                           d \in {DT(W0 + 2, 8, 30, 0, 0, TZ_NEW_YORK),
                                  DT(W0 + 5, 23, 59, 59, 0, TZ_NEW_YORK)},
                           i \in {"High Impact Expected", ""},
                           v \in (Cells \X Cells) \cup (BigCells \X BigCells),
                           p \in {<<>>, <<"0", ".", "3", "%">>} }

HarnessInit ==
    /\ ScrapOff
    /\ PlannerOff
    /\ \E fn \in {"get_start_dt", "get_next_dt", "retry_with_backoff",
                   "normalize_event_name", "generate_event_id",
                   "get_trading_session", "parse_numeric_value",
                   "calculate_outcome", "build_event_record"} :
          h_in \in HarnessInputs(fn)
    \* datetime.now() while the function runs: records are built at two clocks
    /\ now \in { DT(W0 + 8, 12, 0, 0, 0, TZ_UTC) }
               \cup IF h_in.fn = "build_event_record"
                      THEN { DT(W0 + 9, 7, 45, 9, 1, TZ_UTC) } ELSE {}
    /\ local_off = TZ_NEW_YORK
    /\ h_pc = "input"
    /\ h_out = <<>>

CallGetStartDt ==
    /\ h_pc = "input"
    /\ h_in.fn = "get_start_dt"
    /\ h_pc' = "returned"
    /\ h_out' = get_start_dt_from(h_in.file, h_in.timezone)
    /\ UNCHANGED <<now, local_off, planner_vars, h_in, scrap_vars>>

CallGetNextDt ==
    /\ h_pc = "input"
    /\ h_in.fn = "get_next_dt"
    /\ h_pc' = "returned"
    /\ h_out' = get_next_dt(h_in.date, h_in.mode)
    /\ UNCHANGED <<now, local_off, planner_vars, h_in, scrap_vars>>

CallRetryWithBackoff ==
    /\ h_pc = "input"
    /\ h_in.fn = "retry_with_backoff"
    /\ h_pc' = "returned"
    /\ h_out' = retry_with_backoff(h_in.outcomes, h_in.jitter)
    /\ UNCHANGED <<now, local_off, planner_vars, h_in, scrap_vars>>

CallNormalizeEventName ==
    /\ h_pc = "input"
    /\ h_in.fn = "normalize_event_name"
    /\ h_pc' = "returned"
    /\ h_out' = normalize_event_name(h_in.name)
    /\ UNCHANGED <<now, local_off, planner_vars, h_in, scrap_vars>>

CallGenerateEventId ==
    /\ h_pc = "input"
    /\ h_in.fn = "generate_event_id"
    /\ h_pc' = "returned"
    /\ h_out' = generate_event_id(h_in.name, h_in.currency, h_in.date)
    /\ UNCHANGED <<now, local_off, planner_vars, h_in, scrap_vars>>

CallGetTradingSession ==
    /\ h_pc = "input"
    /\ h_in.fn = "get_trading_session"
    /\ h_pc' = "returned"
    /\ h_out' = get_trading_session(h_in.date)
    /\ UNCHANGED <<now, local_off, planner_vars, h_in, scrap_vars>>

CallParseNumericValue ==
    /\ h_pc = "input"
    /\ h_in.fn = "parse_numeric_value"
    /\ h_pc' = "returned"
    /\ h_out' = parse_numeric_value(h_in.actual)
    /\ UNCHANGED <<now, local_off, planner_vars, h_in, scrap_vars>>

CallCalculateOutcome ==
    /\ h_pc = "input"
    /\ h_in.fn = "calculate_outcome"
    /\ h_pc' = "returned"
    /\ h_out' = calculate_outcome(h_in.actual, h_in.forecast)
    /\ UNCHANGED <<now, local_off, planner_vars, h_in, scrap_vars>>

\* lines 939-952 for a row of the given cells
CallBuildEventRecord ==
    /\ h_pc = "input"
    /\ h_in.fn = "build_event_record"
    /\ h_pc' = "returned"
    /\ h_out' = RowRecord(h_in.date,
                          [cur |-> h_in.currency, imp |-> h_in.impact,
                           ev |-> h_in.name, actual |-> h_in.actual,
                           forecast |-> h_in.forecast,
                           previous |-> h_in.previous])
    /\ UNCHANGED <<now, local_off, planner_vars, h_in, scrap_vars>>

HarnessNext ==
    \/ CallGetStartDt
    \/ CallGetNextDt
    \/ CallRetryWithBackoff
    \/ CallNormalizeEventName
    \/ CallGenerateEventId
    \/ CallGetTradingSession
    \/ CallParseNumericValue
    \/ CallCalculateOutcome
    \/ CallBuildEventRecord

HarnessSpec == HarnessInit /\ [][HarnessNext]_vars

(***************************************************************************)
(* C1                                                                      *)
(***************************************************************************)
\* the end of the window dt_to_url chose lies after the clock
C1_WindowEndInFuture ==
    Inst(get_next_dt(p_date, get_mode(p_url))) > Inst(now)

C1_Returned == p_pc = "called" /\ get_mode(p_url) \in {"day", "week", "month"}

RunEntries == {i \in 1..Len(sink) : sink[i].run = run}

\* the instant of the event of a sink entry
EntryInst(i) == 2 * sink[i].rec.timestamp_utc

\* a page has been fetched and processed and the while loop goes on
PageProcessed == pc = "loop" /\ hist.last_fetch = "ok"

\* scrap returned by one of its completions (lines 842, 895, 976, 983, 990)
Completed == pc = "done" /\ result \in {"end_date", "loop", "all_data"}

\* the datetime the site means by an event
SiteDatetime(e) ==
    IF e.tk = "day" THEN DT(e.ord, 23, 59, 59, 0, ff_timezone)
    ELSE DT(e.ord, e.h, e.mi, 0, 0, ff_timezone)

\* an event whose row carries a name, a currency, a date, a time and an impact
SiteValid(e) ==
    /\ e.name # <<>>
    /\ e.cur # ""
    /\ e.dtxt = "ok"
    /\ e.tk \in {"hm", "day"}
    /\ e.imp # "nospan"

SiteRecord(e) ==
    build_event_record(SiteDatetime(e), e.cur, get_source_timezone(e.cur),
                       e.imp, e.name, e.actual, e.forecast, e.previous,
                       calculate_outcome(e.actual, e.forecast))

InSink(rec) == \E i \in 1..Len(sink) : sink[i].rec = rec

\* the events of the source differ pairwise in (name, currency, UTC minute)
SourceDistinct ==
    \A e1, e2 \in site :
        e1 # e2 =>
            <<e1.name, e1.cur, Inst(SiteDatetime(e1)) \div 120>>
                # <<e2.name, e2.cur, Inst(SiteDatetime(e2)) \div 120>>

(***************************************************************************)
(* C2                                                                      *)
(***************************************************************************)
\* C2: in both navigation modes the cursor never moves backwards during a
\* run: after every successfully fetched and processed page the new cursor
\* value is no earlier than the previous one (the claim asks for strictly
\* later, which fails wherever this does).
C2_CursorAdvances ==
    PageProcessed => Inst(start_date) >= Inst(hist.prev_cursor)

(***************************************************************************)
(* C3                                                                      *)
(***************************************************************************)
\* C3: when a page fetch still fails after its retries the failure is fatal:
\* the run has ended, it does not go on to later windows.
C3_FetchFailureFatal ==
    hist.last_fetch = "failed" => pc = "done" /\ result = "fetch_failed"

(***************************************************************************)
(* C4                                                                      *)
(***************************************************************************)
\* C4 as claimed: in both navigation modes every record written during a run
\* has an event datetime strictly after the cursor in force when its page was
\* fetched and not after the horizon.
C4_Original ==
    \A i \in RunEntries :
        /\ EntryInst(i) > Inst(sink[i].cursor)
        /\ EntryInst(i) <= Inst(end_date)

\* C4 amended: every record written during a run has an event datetime not
\* after the horizon, and in URL mode strictly after the cursor in force when
\* its page was fetched; calendar-widget traversal writes the rows of a page
\* whatever the cursor.
C4_WrittenWithinWindow ==
    \A i \in RunEntries :
        /\ ~args.use_calendar_nav => EntryInst(i) > Inst(sink[i].cursor)
        /\ EntryInst(i) <= Inst(end_date)

\* C4 witness: a URL-mode run has written records and has left out a row of a
\* fetched page that lies between start and horizon (it is not after the
\* cursor)
C4_Witness ==
    /\ ~args.use_calendar_nav
    /\ RunEntries # {}
    /\ \E r \in hist.expected : ~InSink(r)

(***************************************************************************)
(* C5                                                                      *)
(***************************************************************************)
\* C5: when a run started at an explicit start date completes without fetch
\* failures, every row of a fetched page with a name, a currency and a
\* datetime within [start, horizon] has been written to the sink.
C5_RowsInWindowWritten ==
    /\ run = 1
    /\ args.start_date_override # 0
    /\ Completed
    /\ hist.failures = 0
    => \A r \in hist.expected : \E i \in RunEntries : sink[i].rec = r

(***************************************************************************)
(* C6                                                                      *)
(***************************************************************************)
\* C6: within one run no two records written to the sink carry the same
\* event_id, when the events of the source differ pairwise in (name,
\* currency, UTC minute).
C6_NoDuplicateIds ==
    SourceDistinct =>
        \A i, j \in RunEntries :
            i # j => sink[i].rec.event_id # sink[j].rec.event_id

(***************************************************************************)
(* C7                                                                      *)
(***************************************************************************)
\* a calendar-mode page whose latest date is at or after the horizon has been
\* processed
C7_HorizonPage ==
    /\ args.use_calendar_nav
    /\ hist.last_fetch = "ok"
    /\ pc # "killed"
    /\ last_date_on_page # None
    /\ Inst(last_date_on_page) >= Inst(end_date)

\* C7: in calendar-widget traversal, after any page whose latest date is at
\* or after the horizon has been processed, the scrape has ended as a
\* completion; scrap has returned, so nothing is clicked or fetched any more.
C7_HorizonEndsScrape ==
    C7_HorizonPage => pc = "done" /\ result = "end_date"

\* C7 witness: a traversal of several pages ended by a page whose latest date
\* is exactly the horizon
C7_Witness ==
    /\ C7_HorizonPage
    /\ hist.pages >= 2
    /\ Inst(last_date_on_page) = Inst(end_date)
    /\ result = "end_date"

(***************************************************************************)
(* C8                                                                      *)
(***************************************************************************)
\* the calendar days by which the first date of the page processed last
\* precedes the original start date, both taken in the venue's zone
C8_DaysBefore ==
    AsTimezone(original_start_date, ff_timezone).ord - first_date_on_page.ord

C8_DatedPage ==
    /\ args.use_calendar_nav
    /\ hist.last_fetch = "ok"
    /\ pc # "killed"
    /\ first_date_on_page # None

\* C8: in calendar-widget traversal, for every fetched page: if its first
\* date precedes the original start date by more than 7 days the scrape ends
\* as a completion, and if by 7 days or fewer no loop is signalled; the
\* moving cursor plays no part.
C8_LoopDetection ==
    C8_DatedPage =>
        /\ C8_DaysBefore > 7 => Completed /\ result \in {"loop", "end_date"}
        /\ C8_DaysBefore <= 7 => result # "loop"

\* C8 witness: a later page begins 7 days or fewer before the original start
\* date but more than 7 days before the cursor it was fetched at, and the
\* traversal goes on
C8_Witness ==
    /\ C8_DatedPage
    /\ hist.pages >= 2
    /\ C8_DaysBefore \in 1..7
    /\ DeltaDays(hist.prev_cursor, first_date_on_page) > 7
    /\ pc = "loop"

(***************************************************************************)
(* C9                                                                      *)
(***************************************************************************)
\* where the latest page request was made: the cursor in URL mode, the
\* Sunday of the week shown in calendar mode
C9_Requested ==
    IF args.use_calendar_nav THEN DT(site_week, 0, 0, 0, 0, ff_timezone)
    ELSE hist.prev_cursor

\* C9, in the form a finite run refutes: a run ends by loop or horizon
\* completion or by a fatal error, whatever the fetches do, so it is not
\* about to request a further page once it has requested one from beyond
\* the horizon.
C9_EndsAtHorizon ==
    pc = "loop" /\ hist.fetches > 0 => Inst(C9_Requested) <= Inst(end_date)

(***************************************************************************)
(* C10                                                                     *)
(***************************************************************************)
\* C10: once a run that resumed an interrupted one via get_start_dt has
\* completed, every source event from the interruption point (the resumed
\* cursor) to the horizon is in the sink.
C10_ResumedComplete ==
    /\ run = 2
    /\ Completed
    /\ hist.failures = 0
    /\ hist.earlier_failures = 0
    => \A e \in site :
          /\ SiteValid(e)
          /\ Inst(original_start_date) <= Inst(SiteDatetime(e))
          /\ Inst(SiteDatetime(e)) <= Inst(end_date)
          => InSink(SiteRecord(e))

(***************************************************************************)
(* C11                                                                     *)
(***************************************************************************)
\* the last line of a file: the text after the last newline other than a
\* newline that ends the file
LastLine(bytes) ==
    LET n == Len(bytes)
        e == IF n > 0 /\ bytes[n] = NL THEN n - 1 ELSE n
        nls == { i \in 1..e : bytes[i] = NL }
    IN  SubSeq(bytes,
               IF nls = {} THEN 1
               ELSE 1 + CHOOSE i \in nls : \A j \in nls : i >= j,
               e)

ReturnedFrom(fn) == h_pc = "returned" /\ h_in.fn = fn

\* the sinks C11 lists: absent, empty, ending in a blank line, or with a
\* last line that is not JSON, not an object, lacks both timestamp fields,
\* or holds a timestamp field that is null or a string
C11_Unusable(file) ==
    \/ ~file.exists
    \/ file.bytes = <<>>
    \/ LET line == Strip(LastLine(file.bytes))
           record == json_loads(line)
       IN  \/ line = <<>>
           \/ record.kind # "object"
           \/ ~HasKey(record, "timestamp_utc") /\ ~HasKey(record, "datetime_utc")
           \/ /\ HasKey(record, "timestamp_utc")
              /\ Item(record, "timestamp_utc").c \in {"null", "str"}
           \/ /\ ~HasKey(record, "timestamp_utc")
              /\ HasKey(record, "datetime_utc")
              /\ Item(record, "datetime_utc").c = "null"

\* C11: get_start_dt never raises, whatever the sink contains, and for a
\* sink that is absent, empty, ends in a blank line, or whose last line is
\* not valid JSON, not an object, lacks both timestamp fields or has a
\* timestamp field of the wrong type, it returns the origin 2007-01-01 00:00
\* in the venue timezone.
C11_NeverRaises ==
    ReturnedFrom("get_start_dt")
        => /\ h_out # TypeError
           /\ C11_Unusable(h_in.file) => h_out = Origin(h_in.timezone)

(***************************************************************************)
(* C12                                                                     *)
(***************************************************************************)
\* a line holding a record with a usable timestamp
C12_ValidRecord(line) ==
    LET record == json_loads(Strip(line))
    IN  /\ record.kind = "object"
        /\ \/ /\ HasKey(record, "timestamp_utc")
              /\ Item(record, "timestamp_utc").c = "num"
           \/ /\ ~HasKey(record, "timestamp_utc")
              /\ HasKey(record, "datetime_utc")
              /\ Item(record, "datetime_utc").c = "datestr"

\* the second its timestamp_utc names, or its datetime_utc without one
C12_Second(line) ==
    LET record == json_loads(Strip(line))
    IN  IF HasKey(record, "timestamp_utc")
          THEN Item(record, "timestamp_utc").v
        ELSE Item(record, "datetime_utc").v

\* C12: for a non-empty sink whose last line is a valid record,
\* get_start_dt returns the UTC instant of that record's timestamp_utc (of
\* its datetime_utc when timestamp_utc is absent), whatever the earlier
\* lines are and whether or not the file ends with a newline.
C12_LastRecordResumed ==
    /\ ReturnedFrom("get_start_dt")
    /\ h_in.file.exists
    /\ h_in.file.bytes # <<>>
    /\ C12_ValidRecord(LastLine(h_in.file.bytes))
    => h_out = FromTimestamp(C12_Second(LastLine(h_in.file.bytes)))

(***************************************************************************)
(* C13                                                                     *)
(***************************************************************************)
\* C13: a failure while extracting or normalizing a single table row
\* (unparsable date text, unparsable time text, missing impact element,
\* sentinel 'pending' date) is confined to that row: it is logged to the
\* error sink, the remaining rows of the page are still processed, and the
\* run is not aborted.
C13_RowFailuresConfined ==
    hist.pages > 0
        => /\ \A i \in DOMAIN hist.rowlog :
                hist.rowlog[i].raised \in {"TypeError", "ValueError"}
                    => hist.rowlog[i].logged = 1 /\ hist.rowlog[i].ended = "ok"
           /\ \/ Len(hist.rowlog) = hist.rows
              \/ hist.rowlog[Len(hist.rowlog)].raised = "loop"
           /\ result # "crash"

(***************************************************************************)
(* C14                                                                     *)
(***************************************************************************)
\* the keys of the dictionary build_event_record returns
EventRecordFields ==
    {"event_id", "status", "timestamp_utc", "scraped_at", "datetime_utc",
     "datetime_new_york", "datetime_london", "day_of_week", "trading_session",
     "currency", "source_tz", "impact", "event", "actual", "forecast",
     "previous", "deviation", "deviation_pct", "outcome"}

C14_RowDropped(r) ==
    r.raised \in {"TypeError", "ValueError"} \/ r.nodate \/ ~r.named

\* C14: each table row produces at most one sink record; a row that raises
\* a row-level error, has no date, or has an empty event name or currency
\* produces none; and every record written holds all EventRecord fields.
C14_RowWritesWholeRecordOrNone ==
    /\ \A i \in DOMAIN hist.rowlog :
          /\ hist.rowlog[i].written \in {0, 1}
          /\ C14_RowDropped(hist.rowlog[i]) => hist.rowlog[i].written = 0
    /\ \A i \in DOMAIN sink : DOMAIN sink[i].rec = EventRecordFields

\* a page was processed on which one row was written, one raised, one had
\* no date and one had no name
C14_Witness ==
    /\ hist.pages > 0
    /\ sink # <<>>
    /\ \E i \in DOMAIN hist.rowlog : hist.rowlog[i].written = 1
    /\ \E i \in DOMAIN hist.rowlog :
          hist.rowlog[i].raised \in {"TypeError", "ValueError"}
    /\ \E i \in DOMAIN hist.rowlog : hist.rowlog[i].nodate
    /\ \E i \in DOMAIN hist.rowlog :
          ~hist.rowlog[i].named /\ hist.rowlog[i].raised = "ok"

(***************************************************************************)
(* C15                                                                     *)
(***************************************************************************)
\* the cursor's window is not fetchable yet, in URL mode
C15_NotFetchable ==
    /\ pc = "loop"
    /\ ~args.use_calendar_nav
    /\ dt_to_url(start_date, TRUE) = NotCompleted

\* C15: in URL mode, when dt_to_url raises 'not completed yet' for the
\* cursor, the run ends at once: no page is requested for that cursor, the
\* cursor is not advanced, and nothing is requested afterwards.
C15_NotCompletedEndsRun ==
    [][ /\ C15_NotFetchable
            => /\ pc' = "done"
               /\ result' = "all_data"
               /\ start_date' = start_date
               /\ hist'.fetches = hist.fetches
               /\ sink' = sink
        /\ result = "all_data"
            => /\ pc' = "done"
               /\ start_date' = start_date
               /\ hist'.fetches = hist.fetches ]_vars

\* a run that fetched pages has ended on a window not completed yet
C15_Witness ==
    /\ pc = "done"
    /\ result = "all_data"
    /\ ~args.use_calendar_nav
    /\ dt_to_url(start_date, TRUE) = NotCompleted
    /\ hist.fetches >= 1

(***************************************************************************)
(* C16                                                                     *)
(***************************************************************************)
\* some day of the week starting at date is the first day of a month that
\* has itself fully elapsed
C16_ElapsedMonthBegins(date) ==
    \E x \in 0..6 :
        /\ dt_is_start_of_month(PlusDays(date, x))
        /\ dt_is_complete(PlusDays(date, x), "month")

\* C16: for a cursor on a week start (Sunday) whose week has fully elapsed
\* and that the month rule does not handle, dt_to_url chooses week
\* granularity unless some day of that week is the first day of a month that
\* has itself fully elapsed, and only in that case day granularity.
C16_WeekUnlessElapsedMonth ==
    /\ p_pc = "called"
    /\ dt_is_start_of_week(p_date)
    /\ dt_is_complete(p_date, "week")
    /\ ~(dt_is_start_of_month(p_date) /\ dt_is_complete(p_date, "month"))
    => get_mode(p_url) =
          IF C16_ElapsedMonthBegins(p_date) THEN "day" ELSE "week"

(***************************************************************************)
(* C17                                                                     *)
(***************************************************************************)
\* the day the next window starts on: the next day, the day a week later,
\* the first day of the next calendar month
C17_NextDay(date, mode) ==
    IF mode = "day" THEN date.ord + 1
    ELSE IF mode = "week" THEN date.ord + 7
    ELSE IF MonthOf(date.ord) = 12 THEN Ordinal(YearOf(date.ord) + 1, 1, 1)
    ELSE Ordinal(YearOf(date.ord), MonthOf(date.ord) + 1, 1)

\* C17: for every cursor, a resumed one with non-zero minutes and seconds
\* included, get_next_dt returns midnight 00:00:00 of the cursor date plus
\* 1 day (day), plus 7 days (week), or of the first day of the next
\* calendar month (month), December rolling over to January.
C17_NextIsMidnight ==
    ReturnedFrom("get_next_dt")
        => /\ h_out.ord = C17_NextDay(h_in.date, h_in.mode)
           /\ h_out.h = 0
           /\ h_out.mi = 0
           /\ h_out.s = 0
           /\ h_out.us = 0

(***************************************************************************)
(* C18                                                                     *)
(***************************************************************************)
\* the attempts among the first MAX_RETRIES that succeed
C18_Successes == { k \in 1..MAX_RETRIES : h_in.outcomes[k].ok }

\* the attempts the claim allows: up to the first success, or all of them
C18_Attempts ==
    IF C18_Successes = {} THEN MAX_RETRIES
    ELSE CHOOSE k \in C18_Successes : \A j \in C18_Successes : k <= j

\* C18: retry_with_backoff calls the wrapped function at most MAX_RETRIES
\* (3) times; it returns the result of the first successful call without
\* calling again, sleeps exactly once between consecutive attempts and not
\* after the last one, and when all three attempts fail it re-raises the
\* last error.
C18_BoundedRetry ==
    ReturnedFrom("retry_with_backoff")
        => /\ Len(h_out.events) = 2 * C18_Attempts - 1
           /\ \A i \in 1..Len(h_out.events) :
                 IF i % 2 = 1
                   THEN h_out.events[i] = [e |-> "call", n |-> (i + 1) \div 2]
                   ELSE h_out.events[i].e = "sleep"
           /\ h_out.raised = (C18_Successes = {})
           /\ h_out.v = h_in.outcomes[C18_Attempts].v

\* all three attempts failed: two sleeps were made and the error of the
\* third attempt reached the caller
C18_Witness ==
    /\ ReturnedFrom("retry_with_backoff")
    /\ C18_Successes = {}
    /\ h_out.raised
    /\ Len(h_out.events) = 5
    /\ h_in.outcomes[2].v # h_in.outcomes[3].v

(***************************************************************************)
(* C19                                                                     *)
(***************************************************************************)
\* C19: every page fetch of the orchestrator, in URL mode and in calendar
\* mode alike, goes through the bounded retry policy: a page is reported as
\* failed only after the maximum number of attempts has been made.
C19_FailedAfterMaxAttempts ==
    hist.last_fetch = "failed" => hist.attempts = MAX_RETRIES

(***************************************************************************)
(* C20                                                                     *)
(***************************************************************************)
\* midnight of a day in the venue timezone
C20_Midnight(ord) == DT(ord, 0, 0, 0, 0, ff_timezone)

\* the resume point: the origin for a sink without records, else the
\* instant of the last record the sink held when the run began
C20_ResumePoint ==
    IF run = 1 THEN Origin(ff_timezone)
    ELSE FromTimestamp(sink[hist.killed_at].rec.timestamp_utc)

\* the initial cursor as claimed
C20_InitialCursor ==
    IF args.start_date_override # 0 THEN C20_Midnight(args.start_date_override)
    ELSE IF args.future_only THEN C20_Midnight(AsTimezone(now, ff_timezone).ord)
    ELSE C20_ResumePoint

\* C20: the initial cursor of a run is the --start-date value at midnight
\* whenever it is given, whatever the sink holds and whether or not
\* --future-only is set; otherwise today's midnight in the venue timezone
\* when --future-only is set; otherwise the resume point of get_start_dt.
\* The horizon is the initial cursor plus days_ahead throughout the run.
C20_InitialCursorAndHorizon ==
    run >= 1
        => /\ original_start_date = C20_InitialCursor
           /\ end_date = PlusDays(C20_InitialCursor, args.days_ahead)

(***************************************************************************)
(* C21                                                                     *)
(***************************************************************************)
\* C21: event_id is stable across runs.  For an event name, a currency and
\* a release instant, generate_event_id returns the same id in whatever
\* timezone the instant is expressed, and the event_id of a record built
\* for them is that id at whatever time the record is scraped.
C21_StableEventId ==
    /\ ReturnedFrom("generate_event_id")
          => \A tz \in {TZ_NEW_YORK, TZ_UTC, 1, 9} :
                generate_event_id(h_in.name, h_in.currency,
                                  AsTimezone(h_in.date, tz)) = h_out
    /\ ReturnedFrom("build_event_record")
          => h_out.event_id = generate_event_id(h_in.name, h_in.currency,
                                                AsTimezone(h_in.date, TZ_UTC))

\* an id was made for a release given in New York time on the eve of its
\* UTC date
C21_Witness ==
    /\ ReturnedFrom("generate_event_id")
    /\ h_in.name # <<>>
    /\ h_in.date.off = TZ_NEW_YORK
    /\ AsTimezone(h_in.date, TZ_UTC).ord = h_in.date.ord + 1

(***************************************************************************)
(* C22                                                                     *)
(***************************************************************************)
\* the UTC date and the UTC time (hour and minute) of an event datetime
C22_UtcDate(dt) == AsTimezone(dt, TZ_UTC).ord

C22_UtcTime(dt) == <<AsTimezone(dt, TZ_UTC).h, AsTimezone(dt, TZ_UTC).mi>>

\* the inputs that differ from the input of the call in exactly one of the
\* event name, the currency, the UTC date and the UTC time
C22_OneChanged ==
    { v \in HarnessInputs("generate_event_id") :
        \/ /\ v.name # h_in.name
           /\ v.currency = h_in.currency /\ v.date = h_in.date
        \/ /\ v.currency # h_in.currency
           /\ v.name = h_in.name /\ v.date = h_in.date
        \/ /\ v.name = h_in.name /\ v.currency = h_in.currency
           /\ (C22_UtcDate(v.date) # C22_UtcDate(h_in.date))
                # (C22_UtcTime(v.date) # C22_UtcTime(h_in.date)) }

\* the first 20 characters of a name
C22_First20(name) == SubSeq(name, 1, IF Len(name) < 20 THEN Len(name) ELSE 20)

\* The claim as stated: changing exactly one of the four identity inputs
\* changes the event_id, except for event names that differ only beyond
\* their 20th character.
C22_Original ==
    ReturnedFrom("generate_event_id")
        => \A v \in C22_OneChanged :
              generate_event_id(v.name, v.currency, v.date) = h_out
                  => /\ v.name # h_in.name
                     /\ C22_First20(v.name) = C22_First20(h_in.name)

\* C22 (amended): changing exactly one of the four identity inputs (event
\* name, currency, UTC date, UTC hour and minute) changes the event_id,
\* except that two event names give the same id exactly when their
\* normalizations are equal: names that differ only in non-alphanumeric
\* characters, or only beyond the 20-character truncation.
C22_OneInputChangesId ==
    ReturnedFrom("generate_event_id")
        => \A v \in C22_OneChanged :
              generate_event_id(v.name, v.currency, v.date) = h_out
                  <=> /\ v.name # h_in.name
                      /\ normalize_event_name(v.name)
                            = normalize_event_name(h_in.name)

\* an id was made for 'CPI m/m' and another name gives the same id
C22_Witness ==
    /\ ReturnedFrom("generate_event_id")
    /\ h_in.name = <<"C", "P", "I", " ", "m", "/", "m">>
    /\ \E v \in C22_OneChanged :
          /\ v.name # h_in.name
          /\ generate_event_id(v.name, v.currency, v.date) = h_out

(***************************************************************************)
(* C23                                                                     *)
(***************************************************************************)
\* C23: in every record built for a row, status is 'released' exactly when
\* the actual value is non-empty and 'scheduled' otherwise, whatever the
\* forecast, the previous value, the date and the scrape time are.
C23_StatusFromActual ==
    ReturnedFrom("build_event_record")
        => h_out.status = IF h_in.actual # <<>> THEN "released" ELSE "scheduled"

\* a record was built for a row whose actual value is text that is no number
C23_Witness ==
    /\ ReturnedFrom("build_event_record")
    /\ h_in.actual = <<"x">>
    /\ h_in.forecast # <<>>
    /\ h_out.status = "released"

(***************************************************************************)
(* C24                                                                     *)
(***************************************************************************)
\* the UTC hour of the datetime get_trading_session was called with
C24_UtcHour == (Inst(h_in.date) \div 7200) % 24

\* The claim as stated: 'london_ny_overlap' for UTC hour 13, 'asian' for
\* UTC hours 22 and 3, and 'off_hours' for UTC hour 17.
C24_Original ==
    ReturnedFrom("get_trading_session")
        => /\ C24_UtcHour = 13 => h_out = "london_ny_overlap"
           /\ C24_UtcHour = 22 => h_out = "asian"
           /\ C24_UtcHour = 3 => h_out = "asian"
           /\ C24_UtcHour = 17 => h_out = "off_hours"

\* C24 (amended): get_trading_session returns 'london_ny_overlap' for UTC
\* hour 13, 'asian' for UTC hour 22, 'asian' for UTC hour 3, and 'new_york'
\* for UTC hour 17.
C24_SessionExamples ==
    ReturnedFrom("get_trading_session")
        => /\ C24_UtcHour = 13 => h_out = "london_ny_overlap"
           /\ C24_UtcHour = 22 => h_out = "asian"
           /\ C24_UtcHour = 3 => h_out = "asian"
           /\ C24_UtcHour = 17 => h_out = "new_york"

\* the session of a datetime given in New York time at 17:30 UTC was asked
C24_Witness ==
    /\ ReturnedFrom("get_trading_session")
    /\ h_in.date.off = TZ_NEW_YORK
    /\ C24_UtcHour = 17
    /\ h_in.date.mi = 30

(***************************************************************************)
(* C25                                                                     *)
(***************************************************************************)
\* the UTC hours of the three sessions, start inclusive and end exclusive
C25_Asian == (21..23) \cup (0..5)

C25_London == 7..15

C25_NewYork == 12..20

\* the label of an hour by the fixed precedence
C25_Label(hour) ==
    IF hour \in C25_London \cap C25_NewYork THEN "london_ny_overlap"
    ELSE IF hour \in C25_Asian \cap C25_London THEN "asian_london_overlap"
    ELSE IF hour \in C25_London THEN "london"
    ELSE IF hour \in C25_NewYork THEN "new_york"
    ELSE IF hour \in C25_Asian THEN "asian"
    ELSE "off_hours"

\* C25: for every UTC hour 0..23, get_trading_session returns the label the
\* fixed precedence gives over the three ranges (Asian 21-06 wrapping
\* midnight, London 07-16, New York 12-21, start inclusive, end exclusive):
\* London and New York give london_ny_overlap, else Asian and London give
\* asian_london_overlap, else the single active session, else off_hours;
\* hour 21 is 'asian' and hour 16 is 'new_york'.
C25_SessionByHour ==
    ReturnedFrom("get_trading_session")
        => /\ h_out = C25_Label((Inst(h_in.date) \div 7200) % 24)
           /\ (Inst(h_in.date) \div 7200) % 24 = 21 => h_out = "asian"
           /\ (Inst(h_in.date) \div 7200) % 24 = 16 => h_out = "new_york"

\* the session of a datetime in the boundary hour 21 UTC was asked
C25_Witness ==
    /\ ReturnedFrom("get_trading_session")
    /\ (Inst(h_in.date) \div 7200) % 24 = 21
    /\ h_in.date.off # TZ_UTC

(***************************************************************************)
(* C26                                                                     *)
(***************************************************************************)
\* the power of ten actual, forecast and epsilon are whole multiples of
C26_Exp(a, f) ==
    LET fe == IF f.v = 0 THEN 0 - 4 ELSE f.e - 4
    IN  IF a.v # 0 /\ a.e < fe THEN a.e ELSE fe

\* the outcome the claim gives for the parsed values a and f, in whole
\* units of 10^C26_Exp
C26_Claimed(a, f) ==
    LET e       == C26_Exp(a, f)
        A       == IF a.v = 0 THEN 0 ELSE a.v * Pow10(a.e - e)
        F       == IF f.v = 0 THEN 0 ELSE f.v * Pow10(f.e - e)
        epsilon == IF f.v = 0 THEN Pow10(0 - 4 - e)
                   ELSE (IF F < 0 THEN 0 - F ELSE F) \div 10000
    IN  IF A > F + epsilon THEN "beat"
        ELSE IF A < F - epsilon THEN "miss"
        ELSE "met"

\* C26: calculate_outcome returns '' when actual or forecast fails to parse;
\* otherwise, with epsilon = |forecast| * 0.0001 (0.0001 when forecast is
\* 0), 'beat' iff actual > forecast + epsilon, 'miss' iff actual < forecast
\* - epsilon, else 'met' (3.2 vs 3.0 beat, 2.9 vs 3.0 miss, 3.0 vs 3.0 met).
C26_Outcome ==
    ReturnedFrom("calculate_outcome")
        => /\ \A a \in {parse_numeric_value(h_in.actual)} :
              \A f \in {parse_numeric_value(h_in.forecast)} :
                 h_out = IF a.null \/ f.null THEN "" ELSE C26_Claimed(a, f)
           /\ h_in.forecast = <<"3", ".", "0">>
                => /\ h_in.actual = <<"3", ".", "2">> => h_out = "beat"
                   /\ h_in.actual = <<"2", ".", "9">> => h_out = "miss"
                   /\ h_in.actual = <<"3", ".", "0">> => h_out = "met"

\* 215.01K against a forecast of 215K is within the relative epsilon
C26_Witness ==
    /\ ReturnedFrom("calculate_outcome")
    /\ h_in.actual = <<"2", "1", "5", ".", "0", "1", "K">>
    /\ h_in.forecast = <<"2", "1", "5", "K">>
    /\ h_out = "met"

(***************************************************************************)
(* C27                                                                     *)
(***************************************************************************)
\* the power of ten of the suffix letter c, 0 for any other character
C27_SuffixPower(c) ==
    IF UpperChar(c) = "K" THEN 3 ELSE IF UpperChar(c) = "M" THEN 6
    ELSE IF UpperChar(c) = "B" THEN 9 ELSE IF UpperChar(c) = "T" THEN 12 ELSE 0

\* the value the claim gives: separators, no-break spaces and '%' stripped,
\* a suffix letter taken off the end only, the remainder read as a number
C27_Claimed(value) ==
    LET t         == Without(Without(Without(StripText(value), ","), "nbsp"), "%")
        power     == IF t = <<>> THEN 0 ELSE C27_SuffixPower(t[Len(t)])
        remainder == IF power = 0 THEN t ELSE SubSeq(t, 1, Len(t) - 1)
        number    == Float(remainder)
    IN  IF number.null THEN NoneNum ELSE Num(number.v, number.e + power)

C28_RecordNulls ==
    ReturnedFrom("build_event_record")
        => /\ h_out.outcome # "None" <=> ~h_out.deviation.null
           /\ ~h_out.deviation_pct.null
                => /\ ~h_out.deviation.null
                   /\ ~parse_numeric_value(h_in.forecast).null
                   /\ parse_numeric_value(h_in.forecast).v # 0
           /\ h_out.status = "scheduled"
                => /\ h_out.outcome = "None"
                   /\ h_out.deviation.null
                   /\ h_out.deviation_pct.null

\* a released record against a forecast of zero: an outcome and a deviation
\* without a percentage
C28_Witness ==
    /\ ReturnedFrom("build_event_record")
    /\ h_out.status = "released"
    /\ h_out.outcome = "beat"
    /\ ~h_out.deviation.null
    /\ h_out.deviation_pct.null
    /\ h_in.previous # <<>>

(***************************************************************************)
(* C29                                                                     *)
(***************************************************************************)
\* at most 20 characters, each an ASCII letter, a digit or an underscore, no
\* two underscores in a row, no underscore at the start
C29_WellFormed(n) ==
    /\ Len(n) <= 20
    /\ \A i \in 1..Len(n) : n[i] \in AlphaNum \cup {"_"}
    /\ \A i \in 1..(Len(n) - 1) : ~(n[i] = "_" /\ n[i + 1] = "_")
    /\ n # <<>> => n[1] # "_"

C29_EndsWithUnderscore(n) == n # <<>> /\ n[Len(n)] = "_"

\* The claim as stated: the result has at most 20 characters, only ASCII
\* letters, digits and underscores, no two consecutive underscores, and
\* neither begins nor ends with an underscore; the function is idempotent.
C29_Original ==
    ReturnedFrom("normalize_event_name")
        => /\ C29_WellFormed(h_out)
           /\ ~C29_EndsWithUnderscore(h_out)
           /\ normalize_event_name(h_out) = h_out

\* C29 (amended): normalize_event_name returns a string of at most 20
\* characters containing only ASCII letters, digits and underscores, with no
\* two consecutive underscores, that does not begin with an underscore and
\* ends with one only when the truncation cut it at 20 characters; hence the
\* function is idempotent on every result that does not end with an
\* underscore.
C29_Normalized ==
    ReturnedFrom("normalize_event_name")
        => /\ C29_WellFormed(h_out)
           /\ C29_EndsWithUnderscore(h_out)
                => Len(h_out) = 20 /\ Len(h_in.name) > 20
           /\ ~C29_EndsWithUnderscore(h_out) => normalize_event_name(h_out) = h_out

\* 'Core Retail Sales m/m' is cut after the underscore that stands for '/'
C29_Witness ==
    /\ ReturnedFrom("normalize_event_name")
    /\ Len(h_in.name) = 21
    /\ h_in.name[20] = "/"
    /\ Len(h_out) = 20
    /\ h_out[20] = "_"

(***************************************************************************)
(* C30                                                                     *)
(***************************************************************************)
\* the passes of the latest page over rows whose date cell was read
C30_DateRows == SelectSeq(hist.rowlog, LAMBDA entry : entry.daterow)

\* C30: while a page is parsed, the year of each date row equals the true
\* calendar year of the day the site lists, and the dates of successive date
\* rows never decrease (pages running from December into January, pages
\* with days missing), so that a wrongly dated row never moves the cursor
\* backwards or triggers the loop detection.
C30_RowYears ==
    /\ \A i \in DOMAIN C30_DateRows :
          YearOf(C30_DateRows[i].day) = YearOf(C30_DateRows[i].listed)
    /\ \A i \in 1..(Len(C30_DateRows) - 1) :
          C30_DateRows[i].day <= C30_DateRows[i + 1].day
    /\ pc = "done" /\ result = "loop" /\ C30_DateRows # <<>>
          => original_start_date.ord - C30_DateRows[1].listed > LoopTolerance

(***************************************************************************)
(* C31                                                                     *)
(***************************************************************************)
\* the UTC hours at which get_trading_session was asked and answered label
C31_HoursOf(label) ==
    { hour \in 0..23 :
        \E dt \in { d \in {h_in.date} : AsTimezone(d, TZ_UTC).h = hour } :
            h_out = label }

\* C31: over all 24 UTC hours, get_trading_session never returns
\* 'asian_london_overlap' (the Asian and London ranges share no hour), and
\* it returns 'off_hours' for UTC hour 6 and for no other hour.
C31_NoAsianLondonOverlap ==
    ReturnedFrom("get_trading_session")
        => /\ C31_HoursOf("asian_london_overlap") = {}
           /\ C31_HoursOf("off_hours") \subseteq {6}
           /\ AsTimezone(h_in.date, TZ_UTC).h = 6 => h_out = "off_hours"

\* the session of a datetime in the hour 6 UTC, given in Tokyo time
C31_Witness ==
    /\ ReturnedFrom("get_trading_session")
    /\ h_in.date.off = 9
    /\ h_in.date.h = 15
    /\ h_out = "off_hours"

====
